---- MODULE Spec2Model ----
(***************************************************************************)
(* A model of the query-generation / execution / repair loop of the        *)
(* graphql-agent repository: the Query Executor (tools/query-graphql.ts),  *)
(* the graphql-execution workflow (workflows/graphql-execution.ts), the    *)
(* graphqlAnalysis1 and gitcoinQueryWorkflow workflows and the fixQuery    *)
(* step of steps/fix-query.                                                *)
(*                                                                         *)
(* Strings are sequences of atoms.  The atom " " is one space; every other *)
(* atom is a run of non-space characters (a quote, a backslash and a line  *)
(* feed are atoms of their own).  JavaScript values are records [tag, v]:  *)
(* undefined, null, a string, a JSON value (held as its serialisation) or  *)
(* a list.                                                                 *)
(***************************************************************************)
EXTENDS Integers, Sequences, FiniteSets, Bags, TLC

VARIABLES
    wf,        \* the workflow (or tool) this run executes
    pc,        \* position of the run: the step, and the await it is suspended at
    ctx,       \* what the workflow context holds before the loop: prompt, schema, ...
    steps,     \* context.steps: step id -> the result the step returned
    pending,   \* the external call in flight (at most one per run)
    genLog,    \* Completion Engine calls dispatched so far, with their prompts
    execLog,   \* Query Executor calls dispatched so far, with their results once resolved
    trace,     \* ids of the steps whose execute has been entered, in order
    due        \* bag of the step runs the workflow engine has still to start

vars == <<wf, pc, ctx, steps, pending, genLog, execLog, trace, due>>

----------------------------------------------------------------------------
(* JavaScript values *)

Undefined == [tag |-> "undefined", v |-> <<>>]
Null == [tag |-> "null", v |-> <<>>]
Str(s) == [tag |-> "string", v |-> s]
Json(s) == [tag |-> "json", v |-> s]
List(items) == [tag |-> "list", v |-> items]

\* JavaScript truthiness of a value: undefined, null and "" are falsy
Truthy(x) ==
    /\ x.tag \notin {"undefined", "null"}
    /\ ~(x.tag = "string" /\ x.v = <<>>)

----------------------------------------------------------------------------
(* Strings *)

\* the character String.split(" ") splits at
IsSpace(a) == a = " "
\* what trim() removes and \s matches
IsWhitespace(a) == a \in {" ", "\n"}

RECURSIVE TrimStart(_)
TrimStart(s) ==
    IF s = <<>> THEN <<>>
    ELSE IF IsWhitespace(Head(s)) THEN TrimStart(Tail(s))
    ELSE s

RECURSIVE TrimEnd(_)
TrimEnd(s) ==
    IF s = <<>> THEN <<>>
    ELSE IF IsWhitespace(s[Len(s)]) THEN TrimEnd(SubSeq(s, 1, Len(s) - 1))
    ELSE s

\* String.prototype.trim
Trim(s) == TrimEnd(TrimStart(s))

\* index of the first occurrence of atom a in s at or after position from, 0 if none
FirstIndex(s, a, from) ==
    LET hits == {i \in from..Len(s) : s[i] = a}
    IN IF hits = {} THEN 0 ELSE CHOOSE i \in hits : \A j \in hits : i <= j

\* text.match(/<tag>([\s\S]*?)<\/tag>/): the leftmost opening tag that is followed
\* by a closing tag, and the shortest capture after it
TagMatch(text, open, close) ==
    LET i == FirstIndex(text, open, 1)
        j == IF i = 0 THEN 0 ELSE FirstIndex(text, close, i + 1)
    IN IF j = 0 THEN [found |-> FALSE, cap |-> <<>>]
       ELSE [found |-> TRUE, cap |-> SubSeq(text, i + 1, j - 1)]

queryPattern(text) == TagMatch(text, "<query>", "</query>")
variablesPattern(text) == TagMatch(text, "<variables>", "</variables>")
explanationPattern(text) == TagMatch(text, "<explanation>", "</explanation>")

RECURSIVE CountSpaces(_)
CountSpaces(s) ==
    IF s = <<>> THEN 0
    ELSE (IF IsSpace(Head(s)) THEN 1 ELSE 0) + CountSpaces(Tail(s))

WordCount_separators(s) == CountSpaces(s)

\* s.split(" ").length
WordCount(s) == CountSpaces(s) + 1

\* the first n elements of s.split(" "), joined by " "
RECURSIVE LeadingWords(_, _)
LeadingWords(s, n) ==
    IF n <= 0 \/ s = <<>> THEN <<>>
    ELSE IF IsSpace(Head(s))
         THEN (IF n = 1 THEN <<>> ELSE <<" ">> \o LeadingWords(Tail(s), n - 1))
         ELSE <<Head(s)>> \o LeadingWords(Tail(s), n)

\* s.split(" ").slice(0, n).join(" "): a negative n counts from the end
FirstWords(s, n) ==
    IF n >= 0 THEN LeadingWords(s, n)
    ELSE LeadingWords(s, WordCount(s) + n)

\* what JSON.stringify writes for the characters of a string: a quote and a
\* backslash get a backslash in front, a line feed becomes the two characters \n
RECURSIVE Escape(_)
Escape(s) ==
    IF s = <<>> THEN <<>>
    ELSE (CASE Head(s) = "\"" -> <<"\\", "\"">>
            [] Head(s) = "\\" -> <<"\\", "\\">>
            [] Head(s) = "\n" -> <<"\\n">>
            [] OTHER -> <<Head(s)>>) \o Escape(Tail(s))

Quoted(s) == <<"\"">> \o Escape(s) \o <<"\"">>

\* the elements of a list of strings, quoted and separated by commas
RECURSIVE JoinQuoted(_)
JoinQuoted(items) ==
    IF items = <<>> THEN <<>>
    ELSE IF Len(items) = 1 THEN Quoted(items[1])
    ELSE Quoted(items[1]) \o <<",">> \o JoinQuoted(Tail(items))

\* JSON.stringify: undefined stays undefined, a string is quoted
JSON_stringify(x) ==
    CASE x.tag = "undefined" -> Undefined
      [] x.tag = "null" -> Str(<<"null">>)
      [] x.tag = "string" -> Str(Quoted(x.v))
      [] x.tag = "list" -> Str(<<"[">> \o JoinQuoted(x.v) \o <<"]">>)
      [] OTHER -> Str(x.v)

\* s.includes(part)
Includes(s, part) ==
    \E i \in 1..(Len(s) - Len(part) + 1) : SubSeq(s, i, i + Len(part) - 1) = part

----------------------------------------------------------------------------
(* The graphql parser and JSON.parse, as far as the executor reads them *)

OperationAtoms == {"query{a}", "query{b}", "mutation{m}"}
DefinitionAtoms == OperationAtoms \cup {"fragment{f}"}
JsonAtoms == {"{}", "{v}"}

RECURSIVE Definitions(_)
Definitions(s) ==
    IF s = <<>> THEN <<>>
    ELSE IF IsWhitespace(Head(s)) THEN Definitions(Tail(s))
    ELSE <<Head(s)>> \o Definitions(Tail(s))

SyntaxOK_unchecked(query) == TRUE

\* parse(query) returns a document: at least one definition, nothing else
SyntaxOK(query) ==
    LET defs == Definitions(query)
    IN defs # <<>> /\ \A i \in 1..Len(defs) : defs[i] \in DefinitionAtoms

\* parsedQuery.definitions.some(def => OperationDefinition && operation === "mutation")
isMutation(query) ==
    LET defs == Definitions(query)
    IN \E i \in 1..Len(defs) : defs[i] = "mutation{m}"

\* JSON.parse(variables) returns (it throws otherwise)
JsonOK(variables) ==
    LET body == Definitions(variables)
    IN Len(body) = 1 /\ body[1] \in JsonAtoms

----------------------------------------------------------------------------
(* The Query Executor: tools/query-graphql.ts *)

\* createGraphQLQueryTool's defaults
maxTokens == 25000
truncationSuffix ==
    <<"...", " ", "[content", " ", "truncated", " ", "due", " ", "to", " ",
      "size", " ", "limits]">>

\* the options tools/index.ts passes for the exported graphqlQuery tool
\* (POSTGRES_URL is set, or the module throws while loading)
graphqlQueryOptions ==
    [allowMutations |-> FALSE,
     maxTokens |-> maxTokens,
     truncationSuffix |-> truncationSuffix,
     successfulQueriesIndexName |-> TRUE,
     pgConnectionString |-> TRUE]

\* `${x}` inside a template literal
TemplateText(x) ==
    CASE x.tag = "undefined" -> <<"undefined">>
      [] x.tag = "null" -> <<"null">>
      [] OTHER -> x.v

processGraphQLResponse(result, options) ==
    IF ~Truthy(result.data)
    THEN [success |-> result.success, data |-> result.data,
          errors |-> result.errors, message |-> result.message]
    ELSE LET jsonString == JSON_stringify(result.data)
             responseData ==
                 IF Truthy(jsonString) /\ WordCount(jsonString.v) > options.maxTokens
                 THEN Str(FirstWords(jsonString.v, options.maxTokens)
                          \o options.truncationSuffix)
                 ELSE result.data
         IN [success |-> result.success, data |-> responseData,
             errors |-> result.errors, message |-> Undefined]

CaughtResult_noText(msg) ==
    [success |-> FALSE, data |-> Null, errors |-> List(<<>>),
     message |-> Str(<<"Failed to execute GraphQL query: ">>)]

\* the catch block of execute: the thrown error's message becomes the only error
CaughtResult(msg) ==
    [success |-> FALSE, data |-> Null, errors |-> List(<<msg>>),
     message |-> Str(<<"Failed to execute GraphQL query: ">> \o msg)]

SyntaxErrorMessage == <<"Syntax Error">>
JsonErrorMessage == <<"Unexpected token in JSON">>
BodyErrorMessage == <<"invalid json response body">>
RequestFailedMessage(statusText) == <<"GraphQL request failed: ">> \o statusText

MutationRejected_firstDefinitionOnly(options, query) ==
    LET defs == Definitions(query)
    IN defs # <<>> /\ defs[1] = "mutation{m}" /\ ~options.allowMutations

\* "Disallow mutations if not enabled"
MutationRejected(options, query) ==
    isMutation(query) /\ ~options.allowMutations

MutationResult_noErrors ==
    [success |-> FALSE, data |-> Null, errors |-> Null,
     message |-> Str(<<"Mutations are not allowed">>)]

MutationResult ==
    [success |-> FALSE, data |-> Null,
     errors |-> List(<<<<"Mutations are not allowed unless enabled in configuration">>>>),
     message |-> Str(<<"Mutations are not allowed">>)]

ResponseOk_unchecked(resp) == TRUE

\* response.ok
ResponseOk(resp) == resp.ok

\* the body of the POST request
RequestBody(query, variables) ==
    [query |-> query,
     variables |-> IF Truthy(variables) THEN Json(variables.v) ELSE Undefined]

ArchiveConfigured_indexOnly(options) == options.successfulQueriesIndexName

ArchiveConfigured(options) ==
    options.successfulQueriesIndexName /\ options.pgConnectionString

ArchiveText(query, data) ==
    <<"<query>">> \o query \o <<"</query>", "\n", "<result>">>
        \o TemplateText(JSON_stringify(data)) \o <<"</result>">>

HasGraphQLErrors_anyArray(result) == result.errors.tag = "list"

\* "Check for GraphQL-level errors": result.errors && result.errors.length > 0
HasGraphQLErrors(result) ==
    Truthy(result.errors) /\ result.errors.tag = "list" /\ Len(result.errors.v) > 0

AfterArchive_uncaught(sanitizedResponse, embed) ==
    IF embed = "throws" THEN CaughtResult(<<"embedding failed">>)
    ELSE sanitizedResponse

\* What execute returns once the archive write has been attempted: the value
\* embedSingleString resolves to is not read, and what it throws is caught and
\* logged by the try block around it.
AfterArchive(sanitizedResponse, embed) ==
    CASE embed = "throws" -> sanitizedResponse
      [] embed = "failed" -> sanitizedResponse
      [] OTHER -> sanitizedResponse

\* One call of the tool's execute.  context = [query, variables, hasMaxTokens,
\* maxTokens]; resp is what the endpoint does if it is contacted; embed is what
\* embedSingleString does if it is called.  Returns the result, the requests
\* handed to fetch and the texts handed to embedSingleString.
execute(options, context, resp, embed) ==
    LET query == context.query
        variables == context.variables
        queryOptions ==
            [maxTokens |-> IF context.hasMaxTokens THEN context.maxTokens
                           ELSE options.maxTokens,
             truncationSuffix |-> options.truncationSuffix]
        none == <<>>
        request == <<RequestBody(query, variables)>>
    IN
    IF ~SyntaxOK(query)
    THEN [result |-> CaughtResult(SyntaxErrorMessage), requests |-> none, archive |-> none]
    ELSE IF MutationRejected(options, query)
    THEN [result |-> processGraphQLResponse(MutationResult, queryOptions),
          requests |-> none, archive |-> none]
    ELSE IF Truthy(variables) /\ ~JsonOK(variables.v)
    THEN [result |-> CaughtResult(JsonErrorMessage), requests |-> none, archive |-> none]
    ELSE IF resp.kind = "neterr"
    THEN [result |-> CaughtResult(resp.statusText), requests |-> request, archive |-> none]
    ELSE IF ~ResponseOk(resp)
    THEN [result |-> CaughtResult(RequestFailedMessage(resp.statusText)),
          requests |-> request, archive |-> none]
    ELSE IF ~resp.bodyJson
    THEN [result |-> CaughtResult(BodyErrorMessage), requests |-> request, archive |-> none]
    ELSE IF HasGraphQLErrors(resp)
    THEN [result |-> processGraphQLResponse(
                        [success |-> FALSE, data |-> resp.data, errors |-> resp.errors,
                         message |-> Str(<<"GraphQL query executed but returned errors">>)],
                        queryOptions),
          requests |-> request, archive |-> none]
    ELSE LET sanitizedResponse ==
                 processGraphQLResponse(
                     [success |-> TRUE, data |-> resp.data, errors |-> Null,
                      message |-> Str(<<"GraphQL query executed successfully">>)],
                     queryOptions)
         IN
         [result |-> IF ArchiveConfigured(options)
                     THEN AfterArchive(sanitizedResponse, embed)
                     ELSE sanitizedResponse,
          requests |-> request,
          archive |-> IF ArchiveConfigured(options)
                      THEN <<[text |-> ArchiveText(query, resp.data), outcome |-> embed]>>
                      ELSE none]

\* what the endpoint can do with a request
NetworkError ==
    [kind |-> "neterr", ok |-> FALSE, statusText |-> <<"fetch failed">>,
     bodyJson |-> FALSE, data |-> Undefined, errors |-> Undefined]
\* a non-2xx response; its body may well be a GraphQL result
HttpFailure(statusText, bodyJson, data, errors) ==
    [kind |-> "http", ok |-> FALSE, statusText |-> statusText,
     bodyJson |-> bodyJson, data |-> data, errors |-> errors]
HttpNotJson ==
    [kind |-> "http", ok |-> TRUE, statusText |-> <<"OK">>,
     bodyJson |-> FALSE, data |-> Undefined, errors |-> Undefined]
HttpBody(data, errors) ==
    [kind |-> "http", ok |-> TRUE, statusText |-> <<"OK">>,
     bodyJson |-> TRUE, data |-> data, errors |-> errors]

Payload == Json(<<"{", "\"", "rounds", "\"", ":[{", "\"", "roundMetadata", "\"", ":",
                  "\"", "Web3", " ", "Infrastructure", "\"", "}]}">>)
FieldError == <<"Cannot query field foo">>
OtherError == <<"Variable $roundId is not defined">>

Responses ==
    { NetworkError,
      HttpFailure(<<"Bad Request">>, TRUE, Null, List(<<FieldError>>)),
      HttpFailure(<<"Internal Server Error">>, FALSE, Undefined, Undefined),
      HttpFailure(<<"Not Found">>, TRUE, Payload, Undefined),
      HttpNotJson,
      HttpBody(Payload, Undefined),
      HttpBody(Payload, List(<<>>)),
      HttpBody(Null, List(<<FieldError>>)),
      HttpBody(Payload, List(<<FieldError, OtherError>>)),
      HttpBody(Undefined, Undefined),
      HttpBody(Null, Undefined) }

\* embedSingleString: stores, reports false, or throws (execute catches and logs it)
EmbedOutcomes == {"stored", "failed", "throws"}

----------------------------------------------------------------------------
(* The Completion Engine, as the steps read it *)

EngineThrows == [kind |-> "throws", text |-> <<>>]
EngineText(t) == [kind |-> "text", text |-> t]
\* res is null, or res.text is empty
EngineNoText == EngineText(<<>>)

NoText_never(res) == FALSE

\* !res || !res.text
NoText(res) == res.text = <<>>

QueryA == <<"query{a}">>
QueryB == <<"query{b}">>
Mutation == <<"mutation{m}">>
VarsV == <<"{v}">>
VarsEmpty == <<"{}">>

Tagged(open, body, close) == <<open>> \o body \o <<close>>
QueryTag(body) == Tagged("<query>", body, "</query>")
VariablesTag(body) == Tagged("<variables>", body, "</variables>")
ExplanationTag(body) == Tagged("<explanation>", body, "</explanation>")

\* texts a generation or repair call can return
EngineTexts ==
    { <<"Sorry,", " ", "no", " ", "query">>,
      QueryTag(QueryA) \o VariablesTag(VarsV) \o ExplanationTag(<<"why">>),
      QueryTag(<<" ">> \o QueryB \o <<" ">>) \o VariablesTag(VarsEmpty),
      QueryTag(Mutation) \o VariablesTag(VarsEmpty),
      QueryTag(QueryB \o <<" ">> \o Mutation) \o VariablesTag(VarsV),
      QueryTag(<<>>) \o VariablesTag(<<>>),
      QueryTag(<<" ">>) \o VariablesTag(<<" ">>),
      QueryTag(QueryA),
      VariablesTag(VarsV),
      QueryTag(<<"query{">>) \o VariablesTag(VarsV),
      QueryTag(QueryA) \o VariablesTag(<<"{roundId:">>),
      <<"</query>", "<query>">> \o QueryA }

EngineOutcomes == {EngineThrows, EngineNoText} \cup {EngineText(t) : t \in EngineTexts}

\* the fields a prompt interpolates
Prompt(kind, question, sourceCode, query, variables, explanation, errorMessage, data) ==
    [kind |-> kind, question |-> question, sourceCode |-> sourceCode,
     query |-> query, variables |-> variables,
     explanation |-> explanation, errorMessage |-> errorMessage, data |-> data]

NoSourceCode == <<"No relevant source code comments found.">>

----------------------------------------------------------------------------
(* Bookkeeping of a run *)

NoOut == [none |-> TRUE]
NotRun == [state |-> "none", out |-> NoOut]
Returned(out) == [state |-> "success", out |-> out]
Threw == [state |-> "failed", out |-> NoOut]

\* the call a step is suspended at, with the locals the step holds across the await
NoLocals == [text |-> <<>>, query |-> <<>>, variables |-> <<>>, explanation |-> <<>>]
NoCall == [kind |-> "none", by |-> "none", locals |-> NoLocals]
EngineCall(by) == [kind |-> "llm", by |-> by, locals |-> NoLocals]
ExecutorCall(by, locals) == [kind |-> "exec", by |-> by, locals |-> locals]

NoResponse ==
    [kind |-> "none", ok |-> FALSE, statusText |-> <<>>,
     bodyJson |-> FALSE, data |-> Undefined, errors |-> Undefined]

\* an executor call that has been dispatched and has not resolved yet
Dispatched(by, query, variables) ==
    [by |-> by, query |-> query, variables |-> variables, resolved |-> FALSE,
     result |-> NoOut, requests |-> <<>>, response |-> NoResponse, archive |-> <<>>]

Resolved_inFlight(call, resp, embed) ==
    LET r == execute(graphqlQueryOptions,
                     [query |-> call.query, variables |-> Str(call.variables),
                      hasMaxTokens |-> FALSE, maxTokens |-> 0],
                     resp, embed)
    IN [call EXCEPT !.result = r.result]

\* graphqlQuery.execute({context: {query, variables}}) resolving
Resolved(call, resp, embed) ==
    LET r == execute(graphqlQueryOptions,
                     [query |-> call.query, variables |-> Str(call.variables),
                      hasMaxTokens |-> FALSE, maxTokens |-> 0],
                     resp, embed)
    IN [call EXCEPT !.resolved = TRUE, !.result = r.result,
                    !.requests = r.requests,
                    !.response = IF r.requests = <<>> THEN NoResponse ELSE resp,
                    !.archive = r.archive]

LastExec == execLog[Len(execLog)]
ResolveLast(resp, embed) ==
    [execLog EXCEPT ![Len(execLog)] = Resolved(execLog[Len(execLog)], resp, embed)]

----------------------------------------------------------------------------
(* workflows/graphql-execution.ts: the steps *)

\* generateQuery's initial result ("Initial status is failure")
generateQuery_initial ==
    [status |-> FALSE, query |-> <<>>, variables |-> VarsEmpty,
     explanation |-> <<>>, response |-> Str(<<>>)]

generateQuery_missing(c) ==
    \/ ~Truthy(c.prompt)
    \/ ~Truthy(c.schema)
    \/ c.relevantSourceCode.tag = "undefined"

generateQuery_prompt(c) ==
    Prompt("generate", c.prompt.v,
           IF Truthy(c.relevantSourceCode) THEN c.relevantSourceCode.v ELSE NoSourceCode,
           <<>>, <<>>, <<>>, <<>>, <<>>)

\* the three matches: a field is replaced only when its capture is not empty
generateQuery_parse(text) ==
    LET queryMatch == queryPattern(text)
        variablesMatch == variablesPattern(text)
        explanationMatch == explanationPattern(text)
    IN [text |-> text,
        query |-> IF queryMatch.found /\ queryMatch.cap # <<>>
                  THEN Trim(queryMatch.cap) ELSE generateQuery_initial.query,
        variables |-> IF variablesMatch.found /\ variablesMatch.cap # <<>>
                      THEN Trim(variablesMatch.cap) ELSE generateQuery_initial.variables,
        explanation |-> IF explanationMatch.found /\ explanationMatch.cap # <<>>
                        THEN Trim(explanationMatch.cap)
                        ELSE generateQuery_initial.explanation]

generateQuery_result_partialData(locals, gqlResponse) ==
    [status |-> gqlResponse.success \/ Truthy(gqlResponse.data),
     query |-> locals.query, variables |-> locals.variables,
     explanation |-> locals.explanation,
     response |-> IF gqlResponse.success THEN JSON_stringify(gqlResponse.data)
                  ELSE generateQuery_initial.response]

\* result after the executor call: status and response are set on success only
generateQuery_result(locals, gqlResponse) ==
    [status |-> gqlResponse.success,
     query |-> locals.query, variables |-> locals.variables,
     explanation |-> locals.explanation,
     response |-> IF gqlResponse.success THEN JSON_stringify(gqlResponse.data)
                  ELSE generateQuery_initial.response]

\* fixQuery's guard on its inputs; queryData is generateQuery's result, error is
\* context.inputData.error
fixQuery_missing_errorOptional(c, queryData, error) ==
    \/ ~Truthy(c.prompt)
    \/ ~Truthy(c.schema)
    \/ queryData.state # "success"
    \/ queryData.out.query = <<>>
    \/ queryData.out.variables = <<>>
    \/ c.relevantSourceCode.tag = "undefined"

fixQuery_missing(c, queryData, error) ==
    \/ ~Truthy(c.prompt)
    \/ ~Truthy(c.schema)
    \/ queryData.state # "success"
    \/ queryData.out.query = <<>>
    \/ queryData.out.variables = <<>>
    \/ c.relevantSourceCode.tag = "undefined"
    \/ ~Truthy(error)

\* typeof error === "string" ? error : JSON.stringify(error)
ErrorText(error) ==
    IF error.tag = "string" THEN error.v ELSE TemplateText(JSON_stringify(error))

fixQuery_prompt(c, queryData, error) ==
    Prompt("fix", c.prompt.v,
           IF Truthy(c.relevantSourceCode) THEN c.relevantSourceCode.v ELSE NoSourceCode,
           queryData.out.query, queryData.out.variables, queryData.out.explanation,
           ErrorText(error), <<>>)

fixQuery_failure(explanation) ==
    [status |-> FALSE, query |-> <<>>, variables |-> <<>>,
     explanation |-> explanation, response |-> Str(<<>>)]

\* correctedQuery and correctedVariables, when both tags matched
fixQuery_corrected(text, queryData) ==
    LET queryMatch == queryPattern(text)
        variablesMatch == variablesPattern(text)
    IN [text |-> text,
        query |-> IF queryMatch.cap # <<>> THEN Trim(queryMatch.cap)
                  ELSE queryData.out.query,
        variables |-> IF variablesMatch.cap # <<>> THEN Trim(variablesMatch.cap)
                      ELSE queryData.out.variables,
        explanation |-> text]

fixQuery_result(locals, gqlResponse) ==
    IF gqlResponse.success
    THEN [status |-> TRUE, query |-> locals.query, variables |-> locals.variables,
          explanation |-> locals.text, response |-> JSON_stringify(gqlResponse.data)]
    ELSE fixQuery_failure(locals.text)

\* /Relevance score:\s*(\d+)\/10/i over atoms
RelevanceWords == {"Relevance", "relevance", "RELEVANCE"}
ScoreWords == {"score:", "SCORE:", "Score:"}
NumberAtoms == {"0", "7", "10", "15", "007"}
NumberValue(a) ==
    CASE a = "0" -> 0 [] a = "7" -> 7 [] a = "10" -> 10 [] a = "15" -> 15
      [] a = "007" -> 7 [] OTHER -> 0
SlashTenAtoms == {"/10", "/100", "/10."}

RECURSIVE SkipWhitespace(_, _)
SkipWhitespace(text, k) ==
    IF k <= Len(text) /\ IsWhitespace(text[k]) THEN SkipWhitespace(text, k + 1) ELSE k

RelevanceMatchAt(text, i) ==
    /\ i + 2 <= Len(text)
    /\ text[i] \in RelevanceWords
    /\ text[i + 1] = " "
    /\ text[i + 2] \in ScoreWords
    /\ LET k == SkipWhitespace(text, i + 3)
       IN /\ k + 1 <= Len(text)
          /\ text[k] \in NumberAtoms
          /\ text[k + 1] \in SlashTenAtoms

Min(a, b) == IF a <= b THEN a ELSE b
Max(a, b) == IF a >= b THEN a ELSE b

relevanceScore_unclamped(text) ==
    LET hits == {i \in 1..Len(text) : RelevanceMatchAt(text, i)}
    IN IF hits = {} THEN 5
       ELSE LET i == CHOOSE h \in hits : \A g \in hits : h <= g
            IN NumberValue(text[SkipWhitespace(text, i + 3)])

\* relevanceScore: 5, or the number of the leftmost match, clamped to 0..10
relevanceScore(text) ==
    LET hits == {i \in 1..Len(text) : RelevanceMatchAt(text, i)}
    IN IF hits = {} THEN 5
       ELSE LET i == CHOOSE h \in hits : \A g \in hits : h <= g
                k == SkipWhitespace(text, i + 3)
            IN Min(10, Max(0, NumberValue(text[k])))

analyzeQuery_prompt(c, inputData) ==
    Prompt("analyze", c.prompt.v, <<>>, inputData.query, inputData.variables,
           IF inputData.explanation # <<>> THEN inputData.explanation
           ELSE <<"No explanation provided.">>,
           <<>>, TemplateText(JSON_stringify(inputData.response)))

analyzeQuery_caught(msg) ==
    [analysis |-> <<"Failed to analyze query results: ">> \o msg, relevance |-> 0]
analyzeQuery_noText ==
    [analysis |-> <<"Failed to analyze the query results.">>, relevance |-> 0]
analyzeQuery_result(text) ==
    [analysis |-> text, relevance |-> relevanceScore(text)]

AnalysisTexts ==
    { <<"The", " ", "round", " ", "is", " ", "active.">>,
      <<"Good.", "\n", "Relevance", " ", "score:", " ", "7", "/10">>,
      <<"relevance", " ", "SCORE:", "15", "/10", "\n", "Relevance", " ", "score:", " ", "0", "/10">>,
      <<"Relevance", " ", "score:", " ", "-", "7", "/10">>,
      <<"RELEVANCE", " ", "Score:", "\n", "007", "/100">> }

AnalysisOutcomes == {EngineThrows, EngineNoText} \cup {EngineText(t) : t \in AnalysisTexts}

----------------------------------------------------------------------------
(* workflows/graphql-execution.ts: the graphql-execution workflow *)

Question == <<"What", " ", "is", " ", "round", " ", "865's", " ", "metadata?">>
SchemaText == <<"{\"types\":[]}">>
SourceComments == <<"@notice", " ", "round", " ", "created">>

\* What the engine that runs the workflow hands to the steps: the trigger's prompt,
\* the results of fetchSchema and sourceCode (absent when the workflow runs on its
\* own), and the inputData of fixQuery and analyzeQuery, which the workflow
\* definition maps from nowhere.  fetchSchema returns the introspection tool's
\* serialised schema, so a schema that is present parses.
ExecutionContexts ==
    [prompt : {Undefined, Str(Question)},
     schema : {Undefined, Str(SchemaText)},
     relevantSourceCode : {Undefined, Str(<<>>), Str(SourceComments)},
     inputError : {Undefined, Str(FieldError), List(<<FieldError>>)},
     inputData : {"undefined", "previous"}]

ExecutionSteps == {"generateQuery", "fixQuery", "analyzeQuery"}

graphqlExecution_then_repeatRepair(stepId, results) ==
    IF results[stepId].state = "success" /\ stepId \in {"generateQuery", "fixQuery"}
    THEN (IF results[stepId].out.status = TRUE THEN "analyzeQuery" ELSE "fixQuery")
    ELSE "done"

\* the step that runs after stepId: analyzeQuery when generateQuery.status is
\* true, fixQuery when it is false, nothing after the other two
graphqlExecution_then(stepId, results) ==
    IF stepId = "generateQuery" /\ results[stepId].state = "success"
    THEN (IF results[stepId].out.status = TRUE THEN "analyzeQuery" ELSE "fixQuery")
    ELSE "done"

\* a step of graphql-execution returns r (or throws): record it and move on
Finish(stepId, r) ==
    LET results == [steps EXCEPT ![stepId] = r]
    IN /\ steps' = results
       /\ pc' = graphqlExecution_then(stepId, results)
       /\ pending' = NoCall

Await(label, call) ==
    /\ pc' = label
    /\ pending' = call
    /\ UNCHANGED steps

LogGeneration(by, agent, prompt) ==
    genLog' = Append(genLog, [by |-> by, agent |-> agent, prompt |-> prompt,
                              resolved |-> FALSE, res |-> EngineNoText])

\* agent.generate(prompt) settles with res
ResolveGeneration(res) ==
    genLog' = [genLog EXCEPT ![Len(genLog)].resolved = TRUE, ![Len(genLog)].res = res]

LogExecution(by, query, variables) ==
    execLog' = Append(execLog, Dispatched(by, query, variables))

generateQuery ==
    /\ wf = "graphql-execution" /\ pc = "generateQuery"
    /\ trace' = Append(trace, "generateQuery")
    /\ IF generateQuery_missing(ctx)
       THEN /\ Finish("generateQuery", Returned(generateQuery_initial))
            /\ UNCHANGED genLog
       ELSE /\ LogGeneration("generateQuery", "gqlIntrospectAgent", generateQuery_prompt(ctx))
            /\ Await("generateQuery:llm", EngineCall("generateQuery"))
    /\ UNCHANGED <<wf, due, ctx, execLog>>

generateQuery_onGenerate ==
    /\ wf = "graphql-execution" /\ pc = "generateQuery:llm"
    /\ \E res \in EngineOutcomes :
       /\ ResolveGeneration(res)
       /\ IF res.kind = "throws"
          THEN Finish("generateQuery", Threw) /\ UNCHANGED execLog
          ELSE IF NoText(res)
          THEN Finish("generateQuery", Returned(generateQuery_initial)) /\ UNCHANGED execLog
          ELSE LET result == generateQuery_parse(res.text)
               IN /\ LogExecution("generateQuery", result.query, result.variables)
                  /\ Await("generateQuery:exec", ExecutorCall("generateQuery", result))
    /\ UNCHANGED <<wf, due, ctx, trace>>

generateQuery_onExecute ==
    /\ wf = "graphql-execution" /\ pc = "generateQuery:exec"
    /\ \E resp \in Responses, embed \in EmbedOutcomes :
          /\ execLog' = ResolveLast(resp, embed)
          /\ Finish("generateQuery",
                    Returned(generateQuery_result(pending.locals, LastExec'.result)))
    /\ UNCHANGED <<wf, due, ctx, genLog, trace>>

fixQuery ==
    /\ wf = "graphql-execution" /\ pc = "fixQuery"
    /\ trace' = Append(trace, "fixQuery")
    /\ IF fixQuery_missing(ctx, steps["generateQuery"], ctx.inputError)
       THEN /\ Finish("fixQuery",
                      Returned(fixQuery_failure(<<"Missing required data for fixQuery step">>)))
            /\ UNCHANGED genLog
       ELSE /\ LogGeneration("fixQuery", "gqlExecutionAgent",
                             fixQuery_prompt(ctx, steps["generateQuery"], ctx.inputError))
            /\ Await("fixQuery:llm", EngineCall("fixQuery"))
    /\ UNCHANGED <<wf, due, ctx, execLog>>

fixQuery_onGenerate ==
    /\ wf = "graphql-execution" /\ pc = "fixQuery:llm"
    /\ \E res \in EngineOutcomes :
       /\ ResolveGeneration(res)
       /\ IF res.kind = "throws"
          THEN Finish("fixQuery", Threw) /\ UNCHANGED execLog
          ELSE IF NoText(res)
          THEN /\ Finish("fixQuery",
                         Returned(fixQuery_failure(<<"Failed to generate fixed query">>)))
               /\ UNCHANGED execLog
          ELSE IF ~queryPattern(res.text).found /\ ~variablesPattern(res.text).found
          THEN /\ Finish("fixQuery",
                         Returned(fixQuery_failure(<<"Failed to generate fixed query">>)))
               /\ UNCHANGED execLog
          ELSE IF queryPattern(res.text).found /\ variablesPattern(res.text).found
          THEN LET corrected == fixQuery_corrected(res.text, steps["generateQuery"])
               IN /\ LogExecution("fixQuery", corrected.query, corrected.variables)
                  /\ Await("fixQuery:exec", ExecutorCall("fixQuery", corrected))
          ELSE Finish("fixQuery", Returned(fixQuery_failure(res.text))) /\ UNCHANGED execLog
    /\ UNCHANGED <<wf, due, ctx, trace>>

fixQuery_onExecute ==
    /\ wf = "graphql-execution" /\ pc = "fixQuery:exec"
    /\ \E resp \in Responses, embed \in EmbedOutcomes :
          /\ execLog' = ResolveLast(resp, embed)
          /\ Finish("fixQuery", Returned(fixQuery_result(pending.locals, LastExec'.result)))
    /\ UNCHANGED <<wf, due, ctx, genLog, trace>>

analyzeQuery ==
    /\ wf = "graphql-execution" /\ pc = "analyzeQuery"
    /\ trace' = Append(trace, "analyzeQuery")
    /\ IF ctx.inputData = "undefined"
       THEN \* destructuring inputData throws inside the try block
            /\ Finish("analyzeQuery",
                      Returned(analyzeQuery_caught(<<"Cannot destructure property">>)))
            /\ UNCHANGED genLog
       ELSE /\ LogGeneration("analyzeQuery", "analysisAgent",
                             analyzeQuery_prompt(ctx, steps["generateQuery"].out))
            /\ Await("analyzeQuery:llm", EngineCall("analyzeQuery"))
    /\ UNCHANGED <<wf, due, ctx, execLog>>

analyzeQuery_onGenerate ==
    /\ wf = "graphql-execution" /\ pc = "analyzeQuery:llm"
    /\ \E res \in AnalysisOutcomes :
       /\ ResolveGeneration(res)
       /\ IF res.kind = "throws"
          THEN Finish("analyzeQuery", Returned(analyzeQuery_caught(<<"engine error">>)))
          ELSE IF res.text = <<>>
          THEN Finish("analyzeQuery", Returned(analyzeQuery_noText))
          ELSE Finish("analyzeQuery", Returned(analyzeQuery_result(res.text)))
    /\ UNCHANGED <<wf, due, ctx, execLog, trace>>

InitExecution ==
    /\ wf = "graphql-execution"
    /\ due = EmptyBag
    /\ pc = "generateQuery"
    /\ ctx \in ExecutionContexts
    /\ steps = [s \in ExecutionSteps |-> NotRun]
    /\ pending = NoCall
    /\ genLog = <<>>
    /\ execLog = <<>>
    /\ trace = <<>>

NextExecution ==
    \/ generateQuery
    \/ generateQuery_onGenerate
    \/ generateQuery_onExecute
    \/ fixQuery
    \/ fixQuery_onGenerate
    \/ fixQuery_onExecute
    \/ analyzeQuery
    \/ analyzeQuery_onGenerate

SpecExecution == InitExecution /\ [][NextExecution]_vars

----------------------------------------------------------------------------
(* graphqlAnalysis1 (workflows/graphql-execution-1): generateQuery, executeQuery, *)
(* and after executeQuery the steps analyzeQuery and fixQuery -> executeFixedQuery *)

Bool(b) == [tag |-> "boolean", v |-> IF b THEN <<"true">> ELSE <<"false">>]

\* a `when: {"step.path": literal}` condition holds when the value is the literal
WhenEquals(value, literal) == value.tag = literal.tag /\ value.v = literal.v

\* response.object of a generate call with output: generateQueryOutput
NoObject == [present |-> FALSE, query |-> <<>>, variables |-> <<>>]
QueryObject(query, variables) == [present |-> TRUE, query |-> query, variables |-> variables]
EngineObject(o) == [kind |-> "object", text |-> <<>>, object |-> o]
EngineObjectThrows == [kind |-> "throws", text |-> <<>>, object |-> NoObject]

QueryObjects ==
    { QueryObject(QueryA, VarsV),
      QueryObject(QueryB, VarsEmpty),
      QueryObject(Mutation, VarsEmpty),
      QueryObject(<<"query{">>, VarsV),
      QueryObject(QueryA, <<>>) }

ObjectOutcomes == {EngineObjectThrows, EngineObject(NoObject)}
                      \cup {EngineObject(o) : o \in QueryObjects}

Analysis1Steps == {"generateQuery", "executeQuery", "fixQuery", "executeFixedQuery"}

\* executeQuery's result from the tool's response
executeQuery_result(response) ==
    IF response.success = FALSE /\ Truthy(response.errors)
    THEN [data |-> Str(<<>>), error |-> Undefined,
          errors |-> JSON_stringify(response.errors), success |-> FALSE]
    ELSE [data |-> JSON_stringify(response.data), error |-> Undefined,
          errors |-> Undefined, success |-> TRUE]

\* analyzeQuery's condition, {"executeQuery.success": "true"}
analysis1_analyzeQueryWhen(out) == WhenEquals(Bool(out.success), Str(<<"true">>))

\* The step that runs after stepId.  After executeQuery the workflow subscribes
\* analyzeQuery, under its condition, and fixQuery, under none; the condition
\* compares the boolean success with the string "true", so it never holds.
graphqlAnalysis1_then(stepId, results) ==
    IF results[stepId].state # "success" THEN "done"
    ELSE CASE stepId = "generateQuery" -> "executeQuery"
           [] stepId = "executeQuery" ->
                  IF analysis1_analyzeQueryWhen(results[stepId].out)
                  THEN "analyzeQuery+fixQuery" ELSE "fixQuery"
           [] stepId = "fixQuery" -> "executeFixedQuery"
           [] OTHER -> "done"

Finish1(stepId, r) ==
    LET results == [steps EXCEPT ![stepId] = r]
    IN /\ steps' = results
       /\ pc' = graphqlAnalysis1_then(stepId, results)
       /\ pending' = NoCall

analysis1_generateQuery ==
    /\ wf = "graphqlAnalysis1" /\ pc = "generateQuery"
    /\ trace' = Append(trace, "generateQuery")
    /\ LogGeneration("generateQuery", "gqlExecutionAgent",
                     Prompt("generate", ctx.prompt.v, ctx.relevantSourceCode.v,
                            <<>>, <<>>, <<>>, <<>>, <<>>))
    /\ Await("generateQuery:llm", EngineCall("generateQuery"))
    /\ UNCHANGED <<wf, due, ctx, execLog>>

analysis1_generateQuery_onGenerate ==
    /\ wf = "graphqlAnalysis1" /\ pc = "generateQuery:llm"
    /\ \E res \in ObjectOutcomes :
          /\ ResolveGeneration(res)
          /\ IF res.kind = "throws" \/ ~res.object.present
             THEN Finish1("generateQuery", Threw)
             ELSE Finish1("generateQuery", Returned(res.object))
    /\ UNCHANGED <<wf, due, ctx, execLog, trace>>

\* executeQuery's execute; executeFixedQuery is new Step({...executeQuery, id})
ExecuteQueryStep(id) ==
    /\ wf = "graphqlAnalysis1" /\ pc = id
    /\ trace' = Append(trace, id)
    /\ LET generateQueryResult == steps["generateQuery"].out
       IN LogExecution(id, generateQueryResult.query, generateQueryResult.variables)
    /\ Await(id \o ":exec", ExecutorCall(id, NoLocals))
    /\ UNCHANGED <<wf, due, ctx, genLog>>

ExecuteQueryStep_onExecute(id) ==
    /\ wf = "graphqlAnalysis1" /\ pc = id \o ":exec"
    /\ \E resp \in Responses, embed \in EmbedOutcomes :
          /\ execLog' = ResolveLast(resp, embed)
          /\ Finish1(id, Returned(executeQuery_result(LastExec'.result)))
    /\ UNCHANGED <<wf, due, ctx, genLog, trace>>

analysis1_executeQuery == ExecuteQueryStep("executeQuery")
analysis1_executeQuery_onExecute == ExecuteQueryStep_onExecute("executeQuery")
analysis1_executeFixedQuery == ExecuteQueryStep("executeFixedQuery")
analysis1_executeFixedQuery_onExecute == ExecuteQueryStep_onExecute("executeFixedQuery")

analysis1_fixQuery ==
    /\ wf = "graphqlAnalysis1" /\ pc = "fixQuery"
    /\ trace' = Append(trace, "fixQuery")
    /\ LET generateQueryResult == steps["generateQuery"].out
           errors == steps["executeQuery"].out.error
       IN LogGeneration("fixQuery", "gqlExecutionAgent",
                        Prompt("fix", <<>>, <<>>, generateQueryResult.query,
                               generateQueryResult.variables, <<>>,
                               TemplateText(errors), <<>>))
    /\ Await("fixQuery:llm", EngineCall("fixQuery"))
    /\ UNCHANGED <<wf, due, ctx, execLog>>

analysis1_fixQuery_onGenerate ==
    /\ wf = "graphqlAnalysis1" /\ pc = "fixQuery:llm"
    /\ \E res \in ObjectOutcomes :
          /\ ResolveGeneration(res)
          /\ IF res.kind = "throws"
             THEN Finish1("fixQuery", Threw)
             ELSE Finish1("fixQuery", Returned(res.object))
    /\ UNCHANGED <<wf, due, ctx, execLog, trace>>

\* buildContextFromSchema and sourceCode have run: the prompt and the retrieved
\* context are there
Analysis1Contexts ==
    [prompt : {Str(Question)},
     schema : {Str(SchemaText)},
     relevantSourceCode : {Str(<<>>), Str(SourceComments)},
     inputError : {Undefined},
     inputData : {"undefined"}]

InitAnalysis1 ==
    /\ wf = "graphqlAnalysis1"
    /\ due = EmptyBag
    /\ pc = "generateQuery"
    /\ ctx \in Analysis1Contexts
    /\ steps = [s \in Analysis1Steps |-> NotRun]
    /\ pending = NoCall
    /\ genLog = <<>>
    /\ execLog = <<>>
    /\ trace = <<>>

NextAnalysis1 ==
    \/ analysis1_generateQuery
    \/ analysis1_generateQuery_onGenerate
    \/ analysis1_executeQuery
    \/ analysis1_executeQuery_onExecute
    \/ analysis1_fixQuery
    \/ analysis1_fixQuery_onGenerate
    \/ analysis1_executeFixedQuery
    \/ analysis1_executeFixedQuery_onExecute

SpecAnalysis1 == InitAnalysis1 /\ [][NextAnalysis1]_vars

----------------------------------------------------------------------------
(* gitcoinQueryWorkflow (workflows/gitcoin-query-workflow): fetchSchema,        *)
(* searchContext, planQuery, executeQuery, analyzeResult, finalAnswer          *)

\* "Define maximum retry attempts"
MAX_RETRIES == 2

\* "Query failed - should we retry?"
shouldRetry(attemptCount) == attemptCount < MAX_RETRIES

GitcoinSteps == {"fetchSchema", "searchContext", "planQuery", "executeQuery",
                 "analyzeResult", "finalAnswer"}

\* x || fallback on strings
OrElse(s, fallback) == IF s = <<>> THEN fallback ELSE s

\* the elements of a list of strings, one per line, indented by two spaces
RECURSIVE JoinIndented(_)
JoinIndented(items) ==
    IF items = <<>> THEN <<>>
    ELSE <<"\n", " ", " ">> \o Quoted(items[1])
             \o (IF Len(items) = 1 THEN <<"\n">> ELSE <<",">>)
             \o JoinIndented(Tail(items))

\* JSON.stringify(x, null, 2) of undefined, null, a string or a list of strings
JSON_stringify_indented(x) ==
    CASE x.tag = "undefined" -> Undefined
      [] x.tag = "null" -> Str(<<"null">>)
      [] x.tag = "string" -> Str(Quoted(x.v))
      [] x.tag = "list" -> Str(<<"[">> \o JoinIndented(x.v) \o <<"]">>)

\* `${JSON.stringify(errors, null, 2) || "Unknown error"}`
gitcoin_errorMessage(errors) ==
    LET text == JSON_stringify_indented(errors)
    IN IF Truthy(text) THEN text.v ELSE <<"Unknown error">>

\* `${JSON.stringify(errors, null, 2) || message || "Unknown error"}`
gitcoin_lastError(errors, message) ==
    LET text == JSON_stringify_indented(errors)
    IN IF Truthy(text) THEN text.v
       ELSE IF Truthy(message) THEN message.v
       ELSE <<"Unknown error">>

\* what introspection, the documentation search and the source search return
DocsText == <<"Rounds", " ", "are", " ", "funding", " ", "pools">>
IntrospectionOutcomes == {[success |-> TRUE, fullSchema |-> SchemaText],
                          [success |-> TRUE, fullSchema |-> <<>>],
                          [success |-> FALSE, fullSchema |-> <<>>]}
SearchOutcomes == {<<>>, DocsText}

\* res.object of planQuery's generate call
PlanObject(queryText, queryVariables) ==
    [kind |-> "object", text |-> <<>>,
     object |-> [queryText |-> queryText, queryVariables |-> queryVariables]]
PlanOutcomes ==
    { EngineObjectThrows,
      PlanObject(QueryA, VarsV),
      PlanObject(QueryB, <<>>),
      PlanObject(Mutation, VarsEmpty) }

AnswerText == <<"Round", " ", "865", " ", "funds", " ", "infrastructure">>
AnswerOutcomes == {EngineThrows, EngineNoText, EngineText(AnswerText)}

\* context.getStepResult(id): undefined unless the step has succeeded
HasResult(results, id) == results[id].state = "success"

\* planQuery's attemptCount
planQuery_attemptCount(results) ==
    IF HasResult(results, "analyzeResult")
    THEN results["analyzeResult"].out.attemptCount + 1
    ELSE 1

planQuery_prompt(results) ==
    IF HasResult(results, "analyzeResult")
    THEN LET retryContext == results["analyzeResult"].out
         IN Prompt("plan", retryContext.userQuestion, retryContext.sourceCodeContext,
                   retryContext.queryText,
                   OrElse(retryContext.queryVariables, <<"{}">>), <<>>,
                   TemplateText(retryContext.analysisResult), <<>>)
    ELSE LET initialContext == results["searchContext"].out
         IN Prompt("plan", initialContext.userQuestion, initialContext.sourceCodeContext,
                   <<>>, <<>>, <<>>, <<>>, <<>>)

planQuery_result(results, object) ==
    LET source == IF HasResult(results, "analyzeResult")
                  THEN results["analyzeResult"].out
                  ELSE results["searchContext"].out
    IN [queryText |-> object.queryText, queryVariables |-> object.queryVariables,
        docsContext |-> source.docsContext,
        sourceCodeContext |-> source.sourceCodeContext,
        schema |-> source.schema, userQuestion |-> source.userQuestion,
        attemptCount |-> planQuery_attemptCount(results)]

\* {...result, queryText, ..., attemptCount}
gitcoin_executeQuery_result(prevResult, result) ==
    [success |-> result.success, data |-> result.data, errors |-> result.errors,
     message |-> result.message,
     queryText |-> prevResult.queryText, queryVariables |-> prevResult.queryVariables,
     docsContext |-> prevResult.docsContext,
     sourceCodeContext |-> prevResult.sourceCodeContext,
     schema |-> prevResult.schema, userQuestion |-> prevResult.userQuestion,
     attemptCount |-> prevResult.attemptCount]

analyzeResult_result_neverRetry(prevResult, answer, needsRetry, retryStrategy, analysisResult) ==
    [answer |-> answer, needsRetry |-> FALSE, retryStrategy |-> retryStrategy,
     queryText |-> prevResult.queryText, queryVariables |-> prevResult.queryVariables,
     docsContext |-> prevResult.docsContext,
     sourceCodeContext |-> prevResult.sourceCodeContext,
     schema |-> prevResult.schema, userQuestion |-> prevResult.userQuestion,
     attemptCount |-> prevResult.attemptCount, analysisResult |-> analysisResult]

analyzeResult_result(prevResult, answer, needsRetry, retryStrategy, analysisResult) ==
    [answer |-> answer, needsRetry |-> needsRetry, retryStrategy |-> retryStrategy,
     queryText |-> prevResult.queryText, queryVariables |-> prevResult.queryVariables,
     docsContext |-> prevResult.docsContext,
     sourceCodeContext |-> prevResult.sourceCodeContext,
     schema |-> prevResult.schema, userQuestion |-> prevResult.userQuestion,
     attemptCount |-> prevResult.attemptCount, analysisResult |-> analysisResult]

\* how often x occurs in seq, and the elements of seq
Count(seq, x) == Cardinality({i \in 1..Len(seq) : seq[i] = x})
Range(seq) == {seq[i] : i \in 1..Len(seq)}

\* One entry of a `when` object: "<step>.<path>": value
Condition(step, path, value) == [step |-> step, path |-> path, value |-> value]

\* One call of the workflow builder: `step` is to run after `after` has
\* succeeded, provided every entry of `when` holds
Subscription(after, step, when) == [after |-> after, step |-> step, when |-> when]

\* The builder calls on gitcoinQueryWorkflow, in source order: x.then(y) declares
\* y after x, and .after(x).step(y) declares y after x. Every edge of the main
\* chain is declared twice, and planQuery is declared after analyzeResult twice,
\* under two conditions that hold together when attemptCount is 1.
gitcoinQueryWorkflow ==
    << Subscription("fetchSchema", "searchContext", <<>>),          \* l.1006
       Subscription("searchContext", "planQuery", <<>>),            \* l.1007
       Subscription("planQuery", "executeQuery", <<>>),             \* l.1008
       Subscription("executeQuery", "analyzeResult", <<>>),         \* l.1009
       Subscription("analyzeResult", "finalAnswer",                 \* l.1010
                    << Condition("analyzeResult", "needsRetry", FALSE) >>),
       Subscription("analyzeResult", "planQuery",                   \* l.1013
                    << Condition("analyzeResult", "needsRetry", TRUE) >>),
       Subscription("planQuery", "executeQuery", <<>>),             \* l.1020
       Subscription("executeQuery", "analyzeResult", <<>>),         \* l.1022
       Subscription("analyzeResult", "finalAnswer",                 \* l.1023
                    << Condition("analyzeResult", "needsRetry", FALSE) >>),
       Subscription("analyzeResult", "fetchSchema",                 \* l.1026
                    << Condition("analyzeResult", "needsRetry", TRUE),
                       Condition("analyzeResult", "attemptCount", 2) >>),
       Subscription("analyzeResult", "planQuery",                   \* l.1033
                    << Condition("analyzeResult", "needsRetry", TRUE),
                       Condition("analyzeResult", "attemptCount", 1) >>),
       Subscription("fetchSchema", "searchContext", <<>>),          \* l.1043
       Subscription("searchContext", "planQuery", <<>>) >>          \* l.1045

\* every entry of a `when` object holds of the step results
WhenHolds(when, results) ==
    \A i \in 1..Len(when) :
        /\ HasResult(results, when[i].step)
        /\ results[when[i].step].out[when[i].path] = when[i].value

\* the step ids of the declarations whose `after` is stepId and whose `when`
\* holds, one per declaration, in source order
RECURSIVE Subscribers(_, _, _)
Subscribers(declarations, stepId, results) ==
    IF declarations = <<>> THEN <<>>
    ELSE LET d == Head(declarations)
         IN (IF d.after = stepId /\ WhenHolds(d.when, results)
             THEN <<d.step>> ELSE <<>>)
            \o Subscribers(Tail(declarations), stepId, results)

\* The declarations on analyzeResult that its result `out` satisfies:
\* finalAnswer twice when needsRetry is false; otherwise planQuery, and then
\* fetchSchema when attemptCount is 2 or planQuery again when it is 1
analyzeResult_subscribers(out) ==
    Subscribers(gitcoinQueryWorkflow, "analyzeResult",
                [s \in GitcoinSteps |->
                    IF s = "analyzeResult" THEN Returned(out) ELSE NotRun])

\* the steps declared to run after stepId, one entry per declaration
gitcoin_then(stepId, results) ==
    IF results[stepId].state # "success" THEN <<>>
    ELSE Subscribers(gitcoinQueryWorkflow, stepId, results)

\* The engine that runs the declared graph is the Workflow class of
\* @mastra/core, which is not part of this repository. What it does with a step
\* declared more than once after the same step is a choice made for the whole
\* run: it starts the step once ("once") or once per declaration ("each").
Repeated == {"once", "each"}

\* the runs the engine adds to the ones it has still to start
Starts(next) ==
    IF ctx.repeated = "each"
    THEN [s \in Range(next) |-> Count(next, s)]
    ELSE SetToBag(Range(next))

\* a run in which each declaration starts a run is followed for at most this
\* many step runs; a run in which a subscribed step is started once ends
\* within nine
MaxRuns == 5

\* A step run has ended with result r: the engine records the result, adds the
\* subscribed steps to the runs that are due and starts one of them, in any
\* order; the workflow has ended when none is due.
FinishGitcoin(stepId, r) ==
    LET results == [steps EXCEPT ![stepId] = r]
        queue == due (+) Starts(gitcoin_then(stepId, results))
    IN /\ steps' = results
       /\ pending' = NoCall
       /\ IF BagToSet(queue) = {}
          THEN pc' = "done" /\ due' = queue
          ELSE IF ctx.repeated = "each" /\ Len(trace') >= MaxRuns
          THEN pc' = "stopped" /\ due' = queue
          ELSE \E s \in BagToSet(queue) :
                  pc' = s /\ due' = queue (-) SetToBag({s})

\* a step suspends at an await: nothing ends, nothing starts
gitcoin_await(label, call) == Await(label, call) /\ UNCHANGED due

\* a tool call a step awaits
ToolCall(by, docs) == [kind |-> "tool", by |-> by, locals |-> [NoLocals EXCEPT !.text = docs]]

\* fetchSchema up to `await graphqlIntrospection.execute({context: {}})`
gitcoin_fetchSchema ==
    /\ wf = "gitcoin-query-workflow" /\ pc = "fetchSchema"
    /\ trace' = Append(trace, "fetchSchema")
    /\ gitcoin_await("fetchSchema:introspect", ToolCall("fetchSchema", <<>>))
    /\ UNCHANGED <<wf, ctx, genLog, execLog>>

\* the introspection has settled
gitcoin_fetchSchema_onIntrospect ==
    /\ wf = "gitcoin-query-workflow" /\ pc = "fetchSchema:introspect"
    /\ UNCHANGED <<wf, ctx, genLog, execLog, trace>>
    /\ \E result \in IntrospectionOutcomes :
          IF ~result.success \/ result.fullSchema = <<>>
          THEN FinishGitcoin("fetchSchema", Threw)
          ELSE FinishGitcoin("fetchSchema",
                             Returned([schema |-> result.fullSchema,
                                       userQuestion |-> ctx.userQuestion]))

\* searchContext up to `await dynamicGitcoinDocs.execute(...)`; without a
\* result of fetchSchema it throws
gitcoin_searchContext ==
    /\ wf = "gitcoin-query-workflow" /\ pc = "searchContext"
    /\ trace' = Append(trace, "searchContext")
    /\ UNCHANGED <<wf, ctx, genLog, execLog>>
    /\ IF ~HasResult(steps, "fetchSchema")
       THEN FinishGitcoin("searchContext", Threw)
       ELSE gitcoin_await("searchContext:docs", ToolCall("searchContext", <<>>))

\* the documentation search has settled: on to
\* `await dynamicGitcoinSourceCode.execute(...)`
gitcoin_searchContext_onDocs ==
    /\ wf = "gitcoin-query-workflow" /\ pc = "searchContext:docs"
    /\ \E docs \in SearchOutcomes :
          gitcoin_await("searchContext:source", ToolCall("searchContext", docs))
    /\ UNCHANGED <<wf, ctx, genLog, execLog, trace>>

\* the source-code search has settled: searchContext returns
gitcoin_searchContext_onSource ==
    /\ wf = "gitcoin-query-workflow" /\ pc = "searchContext:source"
    /\ UNCHANGED <<wf, ctx, genLog, execLog, trace>>
    /\ LET prevResult == steps["fetchSchema"].out
           docs == pending.locals.text
       IN \E source \in SearchOutcomes :
             FinishGitcoin("searchContext",
                 Returned([docsContext |->
                               OrElse(docs, <<"No relevant documentation found.">>),
                           sourceCodeContext |->
                               OrElse(source, <<"No relevant source code found.">>),
                           schema |-> prevResult.schema,
                           userQuestion |-> prevResult.userQuestion]))

\* planQuery up to `await gitcoinAgent.generate(...)`; without a result of
\* analyzeResult or of searchContext it throws
gitcoin_planQuery ==
    /\ wf = "gitcoin-query-workflow" /\ pc = "planQuery"
    /\ trace' = Append(trace, "planQuery")
    /\ UNCHANGED <<wf, ctx, execLog>>
    /\ IF ~HasResult(steps, "analyzeResult") /\ ~HasResult(steps, "searchContext")
       THEN FinishGitcoin("planQuery", Threw) /\ UNCHANGED genLog
       ELSE /\ LogGeneration("planQuery", "gitcoinAgent", planQuery_prompt(steps))
            /\ gitcoin_await("planQuery:llm", EngineCall("planQuery"))

gitcoin_planQuery_onGenerate ==
    /\ wf = "gitcoin-query-workflow" /\ pc = "planQuery:llm"
    /\ UNCHANGED <<wf, ctx, execLog, trace>>
    /\ \E res \in PlanOutcomes :
          /\ ResolveGeneration(res)
          /\ IF res.kind = "throws"
             THEN FinishGitcoin("planQuery", Threw)
             ELSE FinishGitcoin("planQuery",
                                Returned(planQuery_result(steps, res.object)))

\* executeQuery up to `await graphqlQuery.execute(...)`; without a result of
\* planQuery it throws
gitcoin_executeQuery ==
    /\ wf = "gitcoin-query-workflow" /\ pc = "executeQuery"
    /\ trace' = Append(trace, "executeQuery")
    /\ UNCHANGED <<wf, ctx, genLog>>
    /\ IF ~HasResult(steps, "planQuery")
       THEN FinishGitcoin("executeQuery", Threw) /\ UNCHANGED execLog
       ELSE /\ LET prevResult == steps["planQuery"].out
               IN LogExecution("executeQuery", prevResult.queryText,
                               prevResult.queryVariables)
            /\ gitcoin_await("executeQuery:exec", ExecutorCall("executeQuery", NoLocals))

gitcoin_executeQuery_onExecute ==
    /\ wf = "gitcoin-query-workflow" /\ pc = "executeQuery:exec"
    /\ UNCHANGED <<wf, ctx, genLog, trace>>
    /\ \E resp \in Responses, embed \in EmbedOutcomes :
          /\ execLog' = ResolveLast(resp, embed)
          /\ FinishGitcoin("executeQuery",
                 Returned(gitcoin_executeQuery_result(steps["planQuery"].out,
                                                      LastExec'.result)))

\* analyzeResult up to its first generate call: the answer when the query
\* succeeded, the error analysis when it failed; without a result of
\* executeQuery it throws
gitcoin_analyzeResult ==
    /\ wf = "gitcoin-query-workflow" /\ pc = "analyzeResult"
    /\ trace' = Append(trace, "analyzeResult")
    /\ UNCHANGED <<wf, ctx, execLog>>
    /\ IF ~HasResult(steps, "executeQuery")
       THEN FinishGitcoin("analyzeResult", Threw) /\ UNCHANGED genLog
       ELSE LET prevResult == steps["executeQuery"].out
            IN IF prevResult.success
               THEN /\ LogGeneration("analyzeResult", "gitcoinAgent",
                           Prompt("answer", prevResult.userQuestion,
                                  prevResult.sourceCodeContext, prevResult.queryText,
                                  OrElse(prevResult.queryVariables, <<"{}">>),
                                  <<>>, <<>>, <<>>))
                    /\ gitcoin_await("analyzeResult:answer", EngineCall("analyzeResult"))
               ELSE /\ LogGeneration("analyzeResult", "gitcoinAgent",
                           Prompt("errorAnalysis", prevResult.userQuestion,
                                  prevResult.sourceCodeContext, prevResult.queryText,
                                  OrElse(prevResult.queryVariables, <<"{}">>),
                                  <<>>, gitcoin_errorMessage(prevResult.errors), <<>>))
                    /\ gitcoin_await("analyzeResult:analysis",
                                     EngineCall("analyzeResult"))

gitcoin_analyzeResult_onAnswer ==
    /\ wf = "gitcoin-query-workflow" /\ pc = "analyzeResult:answer"
    /\ UNCHANGED <<wf, ctx, execLog, trace>>
    /\ \E res \in AnswerOutcomes :
          /\ ResolveGeneration(res)
          /\ IF res.kind = "throws"
             THEN FinishGitcoin("analyzeResult", Threw)
             ELSE FinishGitcoin("analyzeResult",
                      Returned(analyzeResult_result(steps["executeQuery"].out,
                                   Str(res.text), FALSE, Undefined, Undefined)))

\* the error analysis has come back: return the retry, or ask for the fallback
gitcoin_analyzeResult_onAnalysis ==
    /\ wf = "gitcoin-query-workflow" /\ pc = "analyzeResult:analysis"
    /\ UNCHANGED <<wf, ctx, execLog, trace>>
    /\ \E analysisRes \in AnswerOutcomes :
          LET prevResult == steps["executeQuery"].out
              analysisResult == analysisRes.text
              resolved == [genLog EXCEPT ![Len(genLog)].resolved = TRUE,
                                         ![Len(genLog)].res = analysisRes]
          IN IF analysisRes.kind = "throws"
             THEN /\ genLog' = resolved
                  /\ FinishGitcoin("analyzeResult", Threw)
             ELSE IF shouldRetry(prevResult.attemptCount)
             THEN /\ genLog' = resolved
                  /\ FinishGitcoin("analyzeResult",
                         Returned(analyzeResult_result(prevResult, Str(<<>>), TRUE,
                                      Str(analysisResult), Str(analysisResult))))
             ELSE /\ genLog' = Append(resolved,
                         [by |-> "analyzeResult", agent |-> "gitcoinAgent",
                          prompt |-> Prompt("fallback", prevResult.userQuestion,
                                            prevResult.sourceCodeContext, <<>>, <<>>, <<>>,
                                            gitcoin_lastError(prevResult.errors,
                                                              prevResult.message),
                                            <<>>),
                          resolved |-> FALSE, res |-> EngineNoText])
                  /\ gitcoin_await("analyzeResult:fallback",
                           [EngineCall("analyzeResult") EXCEPT
                               !.locals = [NoLocals EXCEPT !.text = analysisResult]])

gitcoin_analyzeResult_onFallback ==
    /\ wf = "gitcoin-query-workflow" /\ pc = "analyzeResult:fallback"
    /\ UNCHANGED <<wf, ctx, execLog, trace>>
    /\ \E fallbackRes \in AnswerOutcomes :
          /\ ResolveGeneration(fallbackRes)
          /\ IF fallbackRes.kind = "throws"
             THEN FinishGitcoin("analyzeResult", Threw)
             ELSE FinishGitcoin("analyzeResult",
                      Returned(analyzeResult_result(steps["executeQuery"].out,
                                   Str(fallbackRes.text), FALSE, Undefined,
                                   Str(pending.locals.text))))

\* finalAnswer; without a result of analyzeResult it throws
gitcoin_finalAnswer ==
    /\ wf = "gitcoin-query-workflow" /\ pc = "finalAnswer"
    /\ trace' = Append(trace, "finalAnswer")
    /\ UNCHANGED <<wf, ctx, genLog, execLog>>
    /\ IF ~HasResult(steps, "analyzeResult")
       THEN FinishGitcoin("finalAnswer", Threw)
       ELSE LET result == steps["analyzeResult"].out
            IN FinishGitcoin("finalAnswer", Returned([finalAnswer |-> result.answer]))

\* the trigger data, and how the engine of this run treats a repeated declaration
GitcoinContexts == [userQuestion : {Question, <<>>}, repeated : Repeated]

InitGitcoin ==
    /\ wf = "gitcoin-query-workflow"
    /\ due = EmptyBag
    /\ pc = "fetchSchema"
    /\ ctx \in GitcoinContexts
    /\ steps = [s \in GitcoinSteps |-> NotRun]
    /\ pending = NoCall
    /\ genLog = <<>>
    /\ execLog = <<>>
    /\ trace = <<>>

NextGitcoin ==
    \/ gitcoin_fetchSchema
    \/ gitcoin_fetchSchema_onIntrospect
    \/ gitcoin_searchContext
    \/ gitcoin_searchContext_onDocs
    \/ gitcoin_searchContext_onSource
    \/ gitcoin_planQuery
    \/ gitcoin_planQuery_onGenerate
    \/ gitcoin_executeQuery
    \/ gitcoin_executeQuery_onExecute
    \/ gitcoin_analyzeResult
    \/ gitcoin_analyzeResult_onAnswer
    \/ gitcoin_analyzeResult_onAnalysis
    \/ gitcoin_analyzeResult_onFallback
    \/ gitcoin_finalAnswer

SpecGitcoin == InitGitcoin /\ [][NextGitcoin]_vars

\* what the workflow engine and the event loop do on their own: start the step
\* that is ready, and continue a step when its engine call has settled
gitcoin_scheduled ==
    \/ gitcoin_fetchSchema
    \/ gitcoin_searchContext
    \/ gitcoin_planQuery
    \/ gitcoin_planQuery_onGenerate
    \/ gitcoin_executeQuery
    \/ gitcoin_analyzeResult
    \/ gitcoin_analyzeResult_onAnswer
    \/ gitcoin_analyzeResult_onAnalysis
    \/ gitcoin_analyzeResult_onFallback
    \/ gitcoin_finalAnswer

\* The answers of the endpoint and of the vector store are not in the program's
\* hands, and the tools set no deadline for them: gitcoin_fetchSchema_onIntrospect,
\* gitcoin_searchContext_onDocs, gitcoin_searchContext_onSource and
\* gitcoin_executeQuery_onExecute happen when the answer arrives, if it does.
\* The runs followed are those in which each subscribed step is started once:
\* they end within nine step runs, so none is cut short.
InitGitcoinOnce == InitGitcoin /\ ctx.repeated = "once"
SpecGitcoinOnce == InitGitcoinOnce /\ [][NextGitcoin]_vars
SpecGitcoinLive == SpecGitcoinOnce /\ WF_vars(gitcoin_scheduled)

----------------------------------------------------------------------------
(* One call of the Query Executor, under any configuration of the tool *)

\* ceilings small enough for the payloads below to exceed them
OverrideCeiling == 2
SmallCeiling == 3

\* a payload of four words
WidePayload ==
    Json(<<"{", "\"", "titles", "\"", ":", "\"", "Alpha", " ", "Beta", " ", "Gamma",
           " ", "Delta", "\"", "}">>)

\* the options createGraphQLQueryTool is given (defaults filled in)
ToolOptions ==
    [allowMutations : BOOLEAN,
     maxTokens : {maxTokens, SmallCeiling},
     truncationSuffix : {truncationSuffix},
     successfulQueriesIndexName : BOOLEAN,
     pgConnectionString : BOOLEAN]

\* the context of a call: inputSchema's query, variables and maxTokens
ToolContexts ==
    [query : {QueryA, Mutation, QueryB \o <<" ">> \o Mutation, <<"query{">>, <<>>},
     variables : {Undefined, Str(<<>>), Str(VarsV), Str(<<"{v">>)},
     hasMaxTokens : {FALSE},
     maxTokens : {0}]
    \cup
    [query : {QueryA, Mutation},
     variables : {Undefined, Str(VarsV)},
     hasMaxTokens : {TRUE},
     maxTokens : {OverrideCeiling}]

ToolResponses ==
    Responses \cup {HttpBody(WidePayload, Undefined),
                    HttpBody(WidePayload, List(<<FieldError>>))}

\* the call has returned: its entry holds the result
Returns(call, r, resp) ==
    [call EXCEPT !.resolved = TRUE, !.result = r.result,
                 !.response = resp, !.archive = r.archive]

\* execute({context}) up to `await fetch(endpoint, ...)`: a query that does not
\* parse, a rejected mutation and variables that are not JSON return before it
tool_execute ==
    /\ wf = "GraphQL Query" /\ pc = "idle"
    /\ \E context \in ToolContexts :
          LET r == execute(ctx, context, NetworkError, "stored")
              call == [by |-> "caller", context |-> context, resolved |-> FALSE,
                       result |-> NoOut, requests |-> r.requests,
                       response |-> NoResponse, archive |-> <<>>]
          IN IF r.requests = <<>>
             THEN /\ execLog' = Append(execLog, Returns(call, r, NoResponse))
                  /\ pc' = "done"
             ELSE /\ execLog' = Append(execLog, call)
                  /\ pc' = "fetch"
    /\ UNCHANGED <<wf, due, ctx, steps, pending, genLog, trace>>

\* the promise of fetch has settled: a network error is caught and returned, a
\* response is read with `await response.text()` or `await response.json()`
tool_onFetch ==
    /\ wf = "GraphQL Query" /\ pc = "fetch"
    /\ \E resp \in ToolResponses :
          IF resp.kind = "neterr"
          THEN /\ execLog' = [execLog EXCEPT ![Len(execLog)] =
                      Returns(@, execute(ctx, LastExec.context, resp, "stored"), resp)]
               /\ pc' = "done"
          ELSE /\ execLog' = [execLog EXCEPT ![Len(execLog)].response = resp]
               /\ pc' = "body"
    /\ UNCHANGED <<wf, due, ctx, steps, pending, genLog, trace>>

\* the body has been read: execute returns, or, after a success with the archive
\* configured, calls `await embedSingleString(...)`
tool_onBody ==
    /\ wf = "GraphQL Query" /\ pc = "body"
    /\ LET r == execute(ctx, LastExec.context, LastExec.response, "stored")
       IN IF r.archive = <<>>
          THEN /\ execLog' = [execLog EXCEPT ![Len(execLog)] =
                      Returns(@, r, LastExec.response)]
               /\ pc' = "done"
          ELSE /\ execLog' = [execLog EXCEPT ![Len(execLog)].archive =
                      <<[text |-> r.archive[1].text, outcome |-> "pending"]>>]
               /\ pc' = "archive"
    /\ UNCHANGED <<wf, due, ctx, steps, pending, genLog, trace>>

\* embedSingleString has settled: execute returns sanitizedResponse
tool_onArchive ==
    /\ wf = "GraphQL Query" /\ pc = "archive"
    /\ \E embed \in EmbedOutcomes :
          execLog' = [execLog EXCEPT ![Len(execLog)] =
              Returns(@, execute(ctx, LastExec.context, LastExec.response, embed),
                      LastExec.response)]
    /\ pc' = "done"
    /\ UNCHANGED <<wf, due, ctx, steps, pending, genLog, trace>>

InitExecutor ==
    /\ wf = "GraphQL Query"
    /\ due = EmptyBag
    /\ pc = "idle"
    /\ ctx \in ToolOptions
    /\ steps = <<>>
    /\ pending = NoCall
    /\ genLog = <<>>
    /\ execLog = <<>>
    /\ trace = <<>>

NextExecutor ==
    \/ tool_execute
    \/ tool_onFetch
    \/ tool_onBody
    \/ tool_onArchive

SpecExecutor == InitExecutor /\ [][NextExecutor]_vars

\* The event loop runs execute once it is called.  When fetch, the reading of
\* the body and embedSingleString settle is not in the program's hands, and
\* execute sets no deadline for any of them: tool_onFetch, tool_onBody and
\* tool_onArchive happen when the answer arrives, if it does.
SpecExecutorLive == SpecExecutor /\ WF_vars(tool_execute)

----------------------------------------------------------------------------
(* processGraphQLResponse applied to a result, and to what it returned *)

MaxCeiling == 4
Applications == 2

\* data of a result: nothing, a one-word object, objects of two and four words,
\* a string with two spaces in a row and a string holding quotes
TruncationData ==
    { Undefined, Null, Str(<<>>), Json(<<"{}">>), Payload, WidePayload,
      Str(<<"Alpha", " ", " ", "Beta">>),
      Str(<<"say", " ", "\"", "hi", " ", "there", "\"">>) }

TruncationInputs ==
    [success : BOOLEAN,
     data : TruncationData,
     errors : {Null, List(<<FieldError>>)},
     message : {Str(<<"GraphQL query executed successfully">>)}]

processGraphQLResponse_apply ==
    /\ wf = "processGraphQLResponse"
    /\ Len(execLog) < Applications
    /\ LET result == IF execLog = <<>> THEN ctx.result
                     ELSE execLog[Len(execLog)].output
       IN execLog' = Append(execLog,
              [input |-> result,
               output |-> processGraphQLResponse(result, ctx.options)])
    /\ pc' = "applied"
    /\ UNCHANGED <<wf, due, ctx, steps, pending, genLog, trace>>

InitTruncation ==
    /\ wf = "processGraphQLResponse"
    /\ due = EmptyBag
    /\ pc = "idle"
    /\ ctx \in [options : [maxTokens : 0..MaxCeiling,
                           truncationSuffix : {truncationSuffix}],
                result : TruncationInputs]
    /\ steps = <<>>
    /\ pending = NoCall
    /\ genLog = <<>>
    /\ execLog = <<>>
    /\ trace = <<>>

NextTruncation == processGraphQLResponse_apply

SpecTruncation == InitTruncation /\ [][NextTruncation]_vars

----------------------------------------------------------------------------
(* The archive write: MastraContentProcessor.processAndStoreSingleString,     *)
(* called by concurrent runs against one index                                *)

MaxClock == 2
Runs == {"run1", "run2"}

\* the texts handed to the archive: nothing, blanks, a query with its result
ArchiveTexts == {<<>>, <<" ", "\n">>, ArchiveText(QueryA, Payload)}

\* what embed() resolves to
EmbeddingOutcomes == {"embedding", "empty", "throws"}
\* what pgVector.upsert does
UpsertOutcomes == {"stored", "throws"}

\* Date.now().toString()
FreshId(now) == ToString(now)

WriteIdle(text) == [at |-> "idle", text |-> text, id |-> "", returned |-> "none"]

\* Date.now() moves on
clock_tick ==
    /\ wf = "archive"
    /\ ctx.now < MaxClock
    /\ ctx' = [ctx EXCEPT !.now = ctx.now + 1]
    /\ UNCHANGED <<wf, due, pc, steps, pending, genLog, execLog, trace>>

\* processAndStoreSingleString(text) up to the await of embed()
processAndStoreSingleString(run) ==
    /\ wf = "archive"
    /\ steps[run].at = "idle"
    /\ IF Trim(steps[run].text) = <<>>
       THEN steps' = [steps EXCEPT ![run].at = "done", ![run].returned = "false"]
       ELSE steps' = [steps EXCEPT ![run].at = "embed"]
    /\ trace' = Append(trace, run)
    /\ UNCHANGED <<wf, due, pc, ctx, pending, genLog, execLog>>

\* embed() has settled: return false, or build the metadata and call upsert
processAndStoreSingleString_onEmbed(run) ==
    /\ wf = "archive"
    /\ steps[run].at = "embed"
    /\ \E outcome \in EmbeddingOutcomes :
          IF outcome = "embedding"
          THEN steps' = [steps EXCEPT ![run].at = "upsert",
                                      ![run].id = FreshId(ctx.now)]
          ELSE steps' = [steps EXCEPT ![run].at = "done", ![run].returned = "false"]
    /\ UNCHANGED <<wf, due, pc, ctx, pending, genLog, execLog, trace>>

\* pgVector.upsert has settled: the row is in the index, or the call threw
processAndStoreSingleString_onUpsert(run) ==
    /\ wf = "archive"
    /\ steps[run].at = "upsert"
    /\ \E outcome \in UpsertOutcomes :
          IF outcome = "stored"
          THEN /\ execLog' = Append(execLog, [by |-> run, text |-> steps[run].text,
                                              id |-> steps[run].id])
               /\ steps' = [steps EXCEPT ![run].at = "done", ![run].returned = "true"]
          ELSE /\ steps' = [steps EXCEPT ![run].at = "done", ![run].returned = "false"]
               /\ UNCHANGED execLog
    /\ UNCHANGED <<wf, due, pc, ctx, pending, genLog, trace>>

InitArchive ==
    /\ wf = "archive"
    /\ due = EmptyBag
    /\ pc = "running"
    /\ ctx = [now |-> 0]
    /\ steps \in [Runs -> {WriteIdle(text) : text \in ArchiveTexts}]
    /\ pending = NoCall
    /\ genLog = <<>>
    /\ execLog = <<>>
    /\ trace = <<>>

NextArchive ==
    \/ clock_tick
    \/ \E run \in Runs : processAndStoreSingleString(run)
    \/ \E run \in Runs : processAndStoreSingleString_onEmbed(run)
    \/ \E run \in Runs : processAndStoreSingleString_onUpsert(run)

SpecArchive == InitArchive /\ [][NextArchive]_vars

----------------------------------------------------------------------------
(* The sourceCode step and the retriever: tools/get-vector-context.ts *)

\* "No relevant context found in the vector database." and the part of it the
\* step looks for, which stops short of the last two characters
NoRelevantContextProbe ==
    <<"No", " ", "relevant", " ", "context", " ", "found", " ", "in", " ", "the", " ",
      "vector", " ", "databas">>
NoRelevantContext == NoRelevantContextProbe \o <<"e.">>

\* rows pgVector.query can return for topK = 1: metadata.text and the score as
\* toFixed(2) prints it
VectorRow(text, score) == [text |-> text, score |-> score]
VectorRows ==
    { VectorRow(SourceComments, "0.82"),
      VectorRow(<<"event", " ", "RoundCreated">>, "0.41"),
      VectorRow(NoRelevantContext, "0.90"),
      VectorRow(<<"No", " ", "relevant", " ", "context">>, "0.35"),
      VectorRow(<<>>, "0.30") }

\* what embed and pgVector.query do for one call of the retriever
VectorOutcomes ==
    {[kind |-> "throws", rows |-> <<>>], [kind |-> "rows", rows |-> <<>>]}
    \cup {[kind |-> "rows", rows |-> <<row>>] : row \in VectorRows}

\* `- ${doc.text} (Similarity: ${doc.similarity.toFixed(2)})`, joined by "\n"
RECURSIVE FormatRows(_)
FormatRows(rows) ==
    IF rows = <<>> THEN <<>>
    ELSE <<"-", " ">> \o rows[1].text \o <<" ", "(Similarity:", " ", rows[1].score, ")">>
         \o (IF Len(rows) = 1 THEN <<>> ELSE <<"\n">> \o FormatRows(Tail(rows)))

\* the context the retriever's execute returns
vectorQuery_context(outcome) ==
    IF outcome.kind = "throws"
    THEN <<"Error fetching context from vector database: ", "connection refused">>
    ELSE IF outcome.rows = <<>> THEN NoRelevantContext
    ELSE FormatRows(outcome.rows)

IsEmptyResult_never(context) == FALSE

\* the contexts the filter drops
IsEmptyResult(context) == Includes(context, NoRelevantContextProbe)

\* [..].filter(..).join("\n")
RECURSIVE JoinKept(_)
JoinKept(contexts) ==
    IF contexts = <<>> THEN <<>>
    ELSE IF IsEmptyResult(contexts[1]) THEN JoinKept(Tail(contexts))
    ELSE LET rest == JoinKept(Tail(contexts))
             kept == {i \in 2..Len(contexts) : ~IsEmptyResult(contexts[i])}
         IN contexts[1] \o (IF kept = {} THEN <<>> ELSE <<"\n">> \o rest)

\* sourceCode: the prompt, then the first of the three retriever calls
sourceCode ==
    /\ wf = "sourceCode" /\ pc = "sourceCode"
    /\ trace' = Append(trace, "sourceCode")
    /\ IF ~Truthy(ctx.prompt)
       THEN /\ steps' = [steps EXCEPT !["sourceCode"] = Threw]
            /\ pc' = "done"
       ELSE /\ pc' = "sourceCode:retriever"
            /\ UNCHANGED steps
    /\ UNCHANGED <<wf, due, ctx, pending, genLog, execLog>>

\* a retriever call returns; after the third, the step filters, joins and returns
sourceCode_onContext ==
    /\ wf = "sourceCode" /\ pc = "sourceCode:retriever"
    /\ \E outcome \in VectorOutcomes :
          LET contexts == Append(execLog, vectorQuery_context(outcome))
          IN /\ execLog' = contexts
             /\ IF Len(contexts) < 3
                THEN UNCHANGED <<pc, steps>>
                ELSE /\ steps' = [steps EXCEPT !["sourceCode"] =
                            Returned([relevantSourceCode |-> JoinKept(contexts)])]
                     /\ pc' = "done"
    /\ UNCHANGED <<wf, due, ctx, pending, genLog, trace>>

InitSourceCode ==
    /\ wf = "sourceCode"
    /\ due = EmptyBag
    /\ pc = "sourceCode"
    /\ ctx \in [prompt : {Undefined, Str(<<>>), Str(Question)}]
    /\ steps = [s \in {"sourceCode"} |-> NotRun]
    /\ pending = NoCall
    /\ genLog = <<>>
    /\ execLog = <<>>
    /\ trace = <<>>

NextSourceCode == sourceCode \/ sourceCode_onContext

SpecSourceCode == InitSourceCode /\ [][NextSourceCode]_vars

----------------------------------------------------------------------------
(* graphqlQueryAgent and its two tools, newQueryAnalysis and fixQueryAnalysis *)

\* tool calls one conversation of the agent is followed for
MaxToolCalls == 7

AgentTools == {"newQueryAnalysis", "fixQueryAnalysis"}

\* what run.start() resolves to, as getStepOutput reads it: the ids in
\* activePaths, and the status and output recorded for the first of them
\* ("absent": the results hold nothing under that id)
StepOutput(success) == [present |-> TRUE, success |-> success]
NoStepOutput == [present |-> FALSE, success |-> FALSE]
RunResults ==
    [activePaths : {<<>>, <<"generateQuery">>, <<"fixQuery">>},
     status : {"success", "failed", "absent"},
     output : {NoStepOutput, StepOutput(TRUE), StepOutput(FALSE)}]

\* getStepOutput: the output of the first active path when that step succeeded
\* with an output, otherwise "unable to get step output" is thrown
getStepOutput(result) ==
    IF Len(result.activePaths) > 0 /\ result.status = "success" /\ result.output.present
    THEN [state |-> "success", out |-> result.output]
    ELSE [state |-> "failed", out |-> NoStepOutput]

\* the tool calls of one turn, in the order the model asked for them; each is
\* "called" until its execute has run up to `await run.start(...)`, then "running"
ToolCalls == {<<t>> : t \in AgentTools} \cup {<<t, u>> : t \in AgentTools, u \in AgentTools}
Called(calls) == [i \in 1..Len(calls) |-> [tool |-> calls[i], state |-> "called"]]

\* the first call whose execute has not run yet (0: none)
NextCalled ==
    IF \E i \in 1..Len(pending) : pending[i].state = "called"
    THEN CHOOSE i \in 1..Len(pending) :
             /\ pending[i].state = "called"
             /\ \A j \in 1..(i - 1) : pending[j].state # "called"
    ELSE 0

\* pending without its i-th call
Settled(i) == SubSeq(pending, 1, i - 1) \o SubSeq(pending, i + 1, Len(pending))

\* The model's turn: it asks for one or two of its tools or gives its answer.
\* The agent is built from a name, the instructions, the model, the tools and a
\* memory; the instructions are text for the model to read.
agent_onGenerate ==
    /\ wf = "GraphQL Query Agent" /\ pc = "llm"
    /\ \/ \E calls \in ToolCalls :
             /\ Len(trace) + Len(calls) <= MaxToolCalls
             /\ pending' = Called(calls)
             /\ pc' = "tools"
       \/ pc' = "done" /\ UNCHANGED pending
    /\ UNCHANGED <<wf, due, ctx, steps, genLog, execLog, trace>>

\* newQueryAnalysisTool.execute up to `await run.start({triggerData})`: a run of the
\* newQueryAnalysis workflow is created and started
newQueryAnalysisTool_execute ==
    /\ wf = "GraphQL Query Agent" /\ pc = "tools"
    /\ NextCalled # 0
    /\ pending[NextCalled].tool = "newQueryAnalysis"
    /\ trace' = Append(trace, "newQueryAnalysis")
    /\ pending' = [pending EXCEPT ![NextCalled].state = "running"]
    /\ UNCHANGED <<wf, due, ctx, steps, pc, genLog, execLog>>

\* the run has settled: getStepOutput and the return of newQueryAnalysisTool.execute;
\* the model has its next turn when every call of this turn has returned
newQueryAnalysisTool_onRun ==
    /\ wf = "GraphQL Query Agent" /\ pc = "tools"
    /\ \E i \in 1..Len(pending) :
          /\ pending[i].tool = "newQueryAnalysis" /\ pending[i].state = "running"
          /\ \E result \in RunResults : steps' = getStepOutput(result)
          /\ pending' = Settled(i)
          /\ pc' = IF Settled(i) = <<>> THEN "llm" ELSE "tools"
    /\ UNCHANGED <<wf, due, ctx, genLog, execLog, trace>>

\* fixQueryAnalysisTool.execute up to `await run.start({triggerData})`: a run of the
\* fixQueryAnalysis workflow is created and started
fixQueryAnalysisTool_execute ==
    /\ wf = "GraphQL Query Agent" /\ pc = "tools"
    /\ NextCalled # 0
    /\ pending[NextCalled].tool = "fixQueryAnalysis"
    /\ trace' = Append(trace, "fixQueryAnalysis")
    /\ pending' = [pending EXCEPT ![NextCalled].state = "running"]
    /\ UNCHANGED <<wf, due, ctx, steps, pc, genLog, execLog>>

\* the run has settled: getStepOutput and the return of fixQueryAnalysisTool.execute;
\* the model has its next turn when every call of this turn has returned
fixQueryAnalysisTool_onRun ==
    /\ wf = "GraphQL Query Agent" /\ pc = "tools"
    /\ \E i \in 1..Len(pending) :
          /\ pending[i].tool = "fixQueryAnalysis" /\ pending[i].state = "running"
          /\ \E result \in RunResults : steps' = getStepOutput(result)
          /\ pending' = Settled(i)
          /\ pc' = IF Settled(i) = <<>> THEN "llm" ELSE "tools"
    /\ UNCHANGED <<wf, due, ctx, genLog, execLog, trace>>

InitAgent ==
    /\ wf = "GraphQL Query Agent"
    /\ due = EmptyBag
    /\ pc = "llm"
    /\ ctx = Question
    /\ steps = [state |-> "none", out |-> NoStepOutput]
    /\ pending = <<>>
    /\ genLog = <<>>
    /\ execLog = <<>>
    /\ trace = <<>>

NextAgent ==
    \/ agent_onGenerate
    \/ newQueryAnalysisTool_execute
    \/ newQueryAnalysisTool_onRun
    \/ fixQueryAnalysisTool_execute
    \/ fixQueryAnalysisTool_onRun

SpecAgent == InitAgent /\ [][NextAgent]_vars

----------------------------------------------------------------------------
(* steps/generate-query.ts: the generateQuery step and its helpers *)

\* parseAgentResponse's defaultResponse: query "", variables "{}", explanation ""
defaultResponse(responseText) ==
    [query |-> <<>>, variables |-> <<"{}">>, explanation |-> <<>>,
     rawResponse |-> responseText]

\* match?.[1]?.trim() ?? fallback
TrimmedOr(match, fallback) == IF match.found THEN Trim(match.cap) ELSE fallback

\* parseAgentResponse(responseText); responseText = "" stands for null as well
parseAgentResponse(responseText) ==
    IF responseText = <<>> THEN defaultResponse(responseText)
    ELSE [query |-> TrimmedOr(queryPattern(responseText),
                              defaultResponse(responseText).query),
          variables |-> TrimmedOr(variablesPattern(responseText),
                                  defaultResponse(responseText).variables),
          explanation |-> TrimmedOr(explanationPattern(responseText),
                                    defaultResponse(responseText).explanation),
          rawResponse |-> responseText]

\* generateQuery's defaultResult with its explanation and errors replaced
newQuery_defaultResult(explanation, errors) ==
    [query |-> <<>>, variables |-> <<"{}">>, explanation |-> explanation,
     response |-> Str(<<>>), success |-> FALSE, errors |-> errors]

\* getAndValidateInputData returns null: prompt and schema must be strings,
\* relevantSourceCode a string or absent
newQuery_invalidInput(c) ==
    \/ c.prompt.tag # "string"
    \/ c.schema.tag # "string"
    \/ c.relevantSourceCode.tag \notin {"string", "undefined"}

\* what generateQuery returns once executeGeneratedQuery has resolved
newQuery_result(parsedResponse, executionResult) ==
    IF executionResult.success
    THEN [query |-> parsedResponse.query, variables |-> parsedResponse.variables,
          explanation |-> parsedResponse.explanation,
          response |-> JSON_stringify(executionResult.data),
          success |-> TRUE, errors |-> Str(<<>>)]
    ELSE [query |-> parsedResponse.query, variables |-> parsedResponse.variables,
          explanation |-> parsedResponse.explanation,
          response |-> JSON_stringify(executionResult.message),
          success |-> FALSE, errors |-> JSON_stringify(executionResult.errors)]

newQuery_finish(r) ==
    /\ steps' = [steps EXCEPT !["generateQuery"] = r]
    /\ pc' = "done"
    /\ pending' = NoCall

newQuery_generateQuery ==
    /\ wf = "steps/generate-query" /\ pc = "generateQuery"
    /\ trace' = Append(trace, "generateQuery")
    /\ IF newQuery_invalidInput(ctx)
       THEN /\ newQuery_finish(Returned(newQuery_defaultResult(
                    <<>>, Str(<<"Invalid or missing input data">>))))
            /\ UNCHANGED genLog
       ELSE /\ LogGeneration("generateQuery", "gqlIntrospectAgent",
                    Prompt("generate", ctx.prompt.v,
                           IF Truthy(ctx.relevantSourceCode) THEN ctx.relevantSourceCode.v
                           ELSE NoSourceCode,
                           <<>>, <<>>, <<>>, <<>>, <<>>))
            /\ Await("generateQuery:llm", EngineCall("generateQuery"))
    /\ UNCHANGED <<wf, due, ctx, execLog>>

\* callAIAgent has resolved: no text, no query, or the query is executed
newQuery_generateQuery_onGenerate ==
    /\ wf = "steps/generate-query" /\ pc = "generateQuery:llm"
    /\ \E res \in EngineOutcomes :
       /\ ResolveGeneration(res)
       /\ IF res.kind = "throws"
          THEN newQuery_finish(Threw) /\ UNCHANGED execLog
          ELSE IF res.text = <<>>
          THEN /\ newQuery_finish(Returned(newQuery_defaultResult(
                       <<"AI agent failed to generate a response">>,
                       Str(<<"AI agent failed to generate a response">>))))
               /\ UNCHANGED execLog
          ELSE LET parsedResponse == parseAgentResponse(res.text)
               IN IF parsedResponse.query = <<>>
                  THEN /\ newQuery_finish(Returned(newQuery_defaultResult(
                               parsedResponse.rawResponse,
                               Str(<<"AI agent did not return a query in the expected format">>))))
                       /\ UNCHANGED execLog
                  ELSE /\ LogExecution("generateQuery", parsedResponse.query,
                                       parsedResponse.variables)
                       /\ Await("generateQuery:exec",
                                ExecutorCall("generateQuery",
                                    [text |-> parsedResponse.rawResponse,
                                     query |-> parsedResponse.query,
                                     variables |-> parsedResponse.variables,
                                     explanation |-> parsedResponse.explanation]))
    /\ UNCHANGED <<wf, due, ctx, trace>>

newQuery_generateQuery_onExecute ==
    /\ wf = "steps/generate-query" /\ pc = "generateQuery:exec"
    /\ \E resp \in Responses, embed \in EmbedOutcomes :
          /\ execLog' = ResolveLast(resp, embed)
          /\ newQuery_finish(Returned(newQuery_result(pending.locals, LastExec'.result)))
    /\ UNCHANGED <<wf, due, ctx, genLog, trace>>

InitNewQuery ==
    /\ wf = "steps/generate-query"
    /\ due = EmptyBag
    /\ pc = "generateQuery"
    /\ ctx \in [prompt : {Undefined, Str(Question)},
                schema : {Undefined, Str(SchemaText)},
                relevantSourceCode : {Undefined, Str(<<>>), Str(SourceComments)}]
    /\ steps = [s \in {"generateQuery"} |-> NotRun]
    /\ pending = NoCall
    /\ genLog = <<>>
    /\ execLog = <<>>
    /\ trace = <<>>

NextNewQuery ==
    \/ newQuery_generateQuery
    \/ newQuery_generateQuery_onGenerate
    \/ newQuery_generateQuery_onExecute

SpecNewQuery == InitNewQuery /\ [][NextNewQuery]_vars

----------------------------------------------------------------------------
(* steps/fix-query: the fixQuery step and its helpers *)

fixStep_parseAgentResponse_lenient(responseText, originalQuery, originalVariables) ==
    LET queryMatch == queryPattern(responseText)
        variablesMatch == variablesPattern(responseText)
    IN [query |-> IF queryMatch.found /\ queryMatch.cap # <<>>
                  THEN Trim(queryMatch.cap) ELSE originalQuery,
        variables |-> IF variablesMatch.found /\ variablesMatch.cap # <<>>
                      THEN Trim(variablesMatch.cap) ELSE originalVariables,
        rawResponse |-> responseText]

\* parseAgentResponse(responseText, originalQuery, originalVariables) for a
\* non-empty responseText: both tags or nothing; an empty capture is replaced by
\* the original value, any other capture is trimmed
fixStep_parseAgentResponse(responseText, originalQuery, originalVariables) ==
    LET queryMatch == queryPattern(responseText)
        variablesMatch == variablesPattern(responseText)
    IN IF ~queryMatch.found \/ ~variablesMatch.found
       THEN [query |-> <<>>, variables |-> <<>>, rawResponse |-> responseText]
       ELSE [query |-> IF queryMatch.cap # <<>>
                       THEN Trim(queryMatch.cap) ELSE originalQuery,
             variables |-> IF variablesMatch.cap # <<>>
                           THEN Trim(variablesMatch.cap) ELSE originalVariables,
             rawResponse |-> responseText]

\* FixQueryTriggerDataSchema.safeParse fails
fixStep_invalidInput(c) ==
    \/ c.prompt.tag # "string"
    \/ c.schema.tag # "string"
    \/ c.relevantSourceCode.tag \notin {"string", "undefined"}
    \/ c.query.tag # "string"
    \/ c.variables.tag # "string"
    \/ c.explanation.tag \notin {"string", "undefined"}

\* the results fixQuery returns without an execution
fixStep_failure(response, explanation, errors) ==
    [response |-> response, query |-> <<>>, variables |-> <<>>,
     explanation |-> explanation, success |-> FALSE, errors |-> errors]

\* what fixQuery returns once executeFixedQuery has resolved
fixStep_result(parsedResponse, executionResult) ==
    IF executionResult.success
    THEN [response |-> JSON_stringify(executionResult.data),
          query |-> parsedResponse.query, variables |-> parsedResponse.variables,
          explanation |-> parsedResponse.text, success |-> TRUE, errors |-> Undefined]
    ELSE [response |-> Str(<<"Corrected query failed to execute">>),
          query |-> parsedResponse.query, variables |-> parsedResponse.variables,
          explanation |-> parsedResponse.text, success |-> FALSE,
          errors |-> JSON_stringify(executionResult.errors)]

fixStep_finish(r) ==
    /\ steps' = [steps EXCEPT !["fixQuery"] = r]
    /\ pc' = "done"
    /\ pending' = NoCall

fixStep_fixQuery ==
    /\ wf = "steps/fix-query" /\ pc = "fixQuery"
    /\ trace' = Append(trace, "fixQuery")
    /\ IF fixStep_invalidInput(ctx)
       THEN /\ fixStep_finish(Returned(fixStep_failure(
                    Str(<<>>), <<"Missing required data for fixQuery step">>,
                    Str(<<"Invalid input data">>))))
            /\ UNCHANGED genLog
       ELSE /\ LogGeneration("fixQuery", "gqlExecutionAgent",
                    Prompt("fix", ctx.prompt.v,
                           IF Truthy(ctx.relevantSourceCode) THEN ctx.relevantSourceCode.v
                           ELSE NoSourceCode,
                           ctx.query.v, ctx.variables.v,
                           IF Truthy(ctx.explanation) THEN ctx.explanation.v
                           ELSE <<"No explanation provided.">>,
                           ErrorText(ctx.error), <<>>))
            /\ Await("fixQuery:llm", EngineCall("fixQuery"))
    /\ UNCHANGED <<wf, due, ctx, execLog>>

\* generateFixedQuery has resolved: no text, nothing to execute, or the
\* corrected query is executed
fixStep_fixQuery_onGenerate ==
    /\ wf = "steps/fix-query" /\ pc = "fixQuery:llm"
    /\ \E res \in EngineOutcomes :
       /\ ResolveGeneration(res)
       /\ IF res.kind = "throws"
          THEN fixStep_finish(Threw) /\ UNCHANGED execLog
          ELSE IF res.text = <<>>
          THEN /\ fixStep_finish(Returned(fixStep_failure(
                       Str(<<>>), <<"Failed to generate fixed query from AI agent">>,
                       Undefined)))
               /\ UNCHANGED execLog
          ELSE LET parsedResponse ==
                       fixStep_parseAgentResponse(res.text, ctx.query.v, ctx.variables.v)
               IN IF parsedResponse.query = <<>> \/ parsedResponse.variables = <<>>
                  THEN /\ fixStep_finish(Returned(fixStep_failure(
                               Str(<<"AI Did not generate a fixed query in the expected format">>),
                               res.text, Undefined)))
                       /\ UNCHANGED execLog
                  ELSE /\ LogExecution("fixQuery", parsedResponse.query,
                                       parsedResponse.variables)
                       /\ Await("fixQuery:exec",
                                ExecutorCall("fixQuery",
                                    [text |-> parsedResponse.rawResponse,
                                     query |-> parsedResponse.query,
                                     variables |-> parsedResponse.variables,
                                     explanation |-> <<>>]))
    /\ UNCHANGED <<wf, due, ctx, trace>>

fixStep_fixQuery_onExecute ==
    /\ wf = "steps/fix-query" /\ pc = "fixQuery:exec"
    /\ \E resp \in Responses, embed \in EmbedOutcomes :
          /\ execLog' = ResolveLast(resp, embed)
          /\ fixStep_finish(Returned(fixStep_result(pending.locals, LastExec'.result)))
    /\ UNCHANGED <<wf, due, ctx, genLog, trace>>

InitFixStep ==
    /\ wf = "steps/fix-query"
    /\ due = EmptyBag
    /\ pc = "fixQuery"
    /\ ctx \in [prompt : {Undefined, Str(Question)},
                schema : {Str(SchemaText)},
                relevantSourceCode : {Undefined, Str(SourceComments)},
                query : {Undefined, Str(<<>>), Str(QueryB)},
                variables : {Str(<<>>), Str(VarsV)},
                explanation : {Undefined, Str(<<"why">>)},
                error : {List(<<FieldError>>)}]
    /\ steps = [s \in {"fixQuery"} |-> NotRun]
    /\ pending = NoCall
    /\ genLog = <<>>
    /\ execLog = <<>>
    /\ trace = <<>>

NextFixStep ==
    \/ fixStep_fixQuery
    \/ fixStep_fixQuery_onGenerate
    \/ fixStep_fixQuery_onExecute

SpecFixStep == InitFixStep /\ [][NextFixStep]_vars

----------------------------------------------------------------------------
(* GitbookDownloader.fetchPage: one page fetched with retries *)

\* the constructor's defaults: options.maxRetries || 3, options.retryDelay || 2000
DefaultMaxRetries == 3
DefaultRetryDelay == 2000

\* requests after which the model stops following a loop that has not ended
MaxRequests == 6

PageHtml == <<"<html>", "Round", " ", "docs", "</html>">>

\* what one this.client.get(url) under withTimeout can do: the server answers
\* with a status, the connection fails, or the timeout rejects first
HttpStatus(status) == [kind |-> "status", status |-> status]
GetOutcomes ==
    {HttpStatus(s) : s \in {200, 204, 404, 429, 500, 503}}
    \cup {[kind |-> "neterr", status |-> 0], [kind |-> "timeout", status |-> 0]}

validateStatus_any(status) == TRUE

\* the client is created without validateStatus: axios resolves the promise for
\* a 2xx status and rejects it for every other status
validateStatus(status) == status >= 200 /\ status < 300

\* the options a downloader is constructed with; 0 and undefined give the default
DownloaderOptions == {0, 1, 2}

\* a request that has been sent and not settled
InFlightRequest == [kind |-> "pending", status |-> 0]

fetchPage_return(value) ==
    /\ pending' = [kind |-> "returned", by |-> "fetchPage",
                   locals |-> [NoLocals EXCEPT !.text = value]]
    /\ pc' = "done"

\* the test of `while (retryCount <= this.maxRetries)` and, inside the loop,
\* the call of this.client.get(url) under withTimeout, up to its await
fetchPage_get ==
    /\ wf = "fetchPage" /\ pc = "loop"
    /\ IF steps.retryCount > ctx.maxRetries
       THEN fetchPage_return(Null) /\ UNCHANGED trace
       ELSE /\ Len(trace) < MaxRequests
            /\ trace' = Append(trace, InFlightRequest)
            /\ pc' = "get"
            /\ UNCHANGED pending
    /\ UNCHANGED <<wf, due, ctx, steps, genLog, execLog>>

\* the request has settled: fetchPage returns, or starts a sleep (for the rate
\* limit, or for the backoff of the 5xx branch and of the catch block)
fetchPage_onResponse ==
    /\ wf = "fetchPage" /\ pc = "get"
    /\ \E outcome \in GetOutcomes :
       /\ trace' = [trace EXCEPT ![Len(trace)] = outcome]
       /\ IF outcome.kind = "status" /\ validateStatus(outcome.status)
          THEN IF outcome.status = 200
               THEN fetchPage_return(Str(PageHtml))
               ELSE IF outcome.status = 429
               THEN pc' = "sleep:rateLimit" /\ UNCHANGED pending
               ELSE IF outcome.status >= 500 /\ steps.retryCount < ctx.maxRetries
               THEN pc' = "sleep:backoff" /\ UNCHANGED pending
               ELSE fetchPage_return(Null)
          ELSE IF steps.retryCount < ctx.maxRetries
               THEN pc' = "sleep:backoff" /\ UNCHANGED pending
               ELSE fetchPage_return(Null)
    /\ UNCHANGED <<wf, due, ctx, steps, genLog, execLog>>

\* the timer of this.sleep has fired: after a backoff sleep `currentDelay *= 2;
\* retryCount++`, after a rate-limit sleep nothing; then the loop test again
fetchPage_onWake ==
    /\ wf = "fetchPage" /\ pc \in {"sleep:backoff", "sleep:rateLimit"}
    /\ steps' = IF pc = "sleep:backoff"
                THEN [steps EXCEPT !.currentDelay = 2 * @, !.retryCount = @ + 1]
                ELSE steps
    /\ pc' = "loop"
    /\ UNCHANGED <<wf, due, ctx, pending, genLog, execLog, trace>>

InitFetchPage ==
    /\ wf = "fetchPage"
    /\ due = EmptyBag
    /\ pc = "loop"
    /\ \E maxRetries \in DownloaderOptions :
          ctx = [maxRetries |-> IF maxRetries = 0 THEN DefaultMaxRetries ELSE maxRetries,
                 retryDelay |-> DefaultRetryDelay]
    /\ steps = [retryCount |-> 0, currentDelay |-> ctx.retryDelay]
    /\ pending = NoCall
    /\ genLog = <<>>
    /\ execLog = <<>>
    /\ trace = <<>>

NextFetchPage ==
    \/ fetchPage_get
    \/ fetchPage_onResponse
    \/ fetchPage_onWake

\* every await of fetchPage settles: withTimeout rejects after the client's
\* timeout, and sleep is a timer
SpecFetchPage == InitFetchPage /\ [][NextFetchPage]_vars /\ WF_vars(NextFetchPage)

----------------------------------------------------------------------------
(* Properties of the graphql-execution workflow and of the Query Executor *)

\* C1: in every run of graphql-execution the Query Executor is invoked at most
\* 2 times (once by generateQuery, once by fixQuery), whatever the engine and
\* the endpoint return.
C1_ExecutorCallsBounded ==
    /\ Len(execLog) <= 2
    /\ Cardinality({i \in 1..Len(execLog) : execLog[i].by = "generateQuery"}) <= 1
    /\ Cardinality({i \in 1..Len(execLog) : execLog[i].by = "fixQuery"}) <= 1

\* a finished run in which both steps called the executor
C1_Witness ==
    /\ pc = "done"
    /\ Len(execLog) = 2
    /\ execLog[1].by = "generateQuery" /\ execLog[2].by = "fixQuery"
    /\ execLog[2].resolved /\ ~execLog[2].result.success

NoParseableQuery(res) ==
    res.kind = "text" /\ res.text # <<>> /\ ~queryPattern(res.text).found

\* C3: with an engine that always returns text lacking a parseable <query> tag, a
\* run (given its inputs) ends in failure after exactly 2 generation calls, one
\* by generateQuery and one by fixQuery.
C3_ExactlyTwoGenerations ==
    ( /\ pc = "done"
      /\ ~generateQuery_missing(ctx)
      /\ Truthy(ctx.inputError)
      /\ \A i \in 1..Len(genLog) : genLog[i].resolved /\ NoParseableQuery(genLog[i].res) )
    => /\ Len(genLog) = 2
       /\ genLog[1].by = "generateQuery"
       /\ genLog[2].by = "fixQuery"
       /\ steps["fixQuery"].state = "success"
       /\ steps["fixQuery"].out.status = FALSE

\* C4: for every invocation of the Query Executor in a run, first attempt or
\* repair: if the query document contains a mutation operation, execute returns
\* success = false with the fixed "Mutations are not allowed" error and no HTTP
\* request is sent.
C4_MutationGuard ==
    \A i \in 1..Len(execLog) :
        (execLog[i].resolved /\ SyntaxOK(execLog[i].query) /\ isMutation(execLog[i].query))
        => /\ execLog[i].result.success = FALSE
           /\ execLog[i].result.message = Str(<<"Mutations are not allowed">>)
           /\ execLog[i].result.errors =
                  List(<<<<"Mutations are not allowed unless enabled in configuration">>>>)
           /\ execLog[i].requests = <<>>

\* both attempts of a run were mutations, the second one not as first definition
C4_Witness ==
    /\ Len(execLog) = 2
    /\ execLog[1].resolved /\ execLog[1].query = Mutation
    /\ execLog[2].resolved /\ execLog[2].by = "fixQuery"
    /\ execLog[2].query = QueryB \o <<" ">> \o Mutation

\* C5: the prompt fixQuery sends for attempt 2 contains the exact text of attempt
\* 1's query and the error attempt 1's execution returned, and is sent only after
\* that execution has resolved.
C5_RepairPromptCarriesQueryAndError ==
    \A i \in 1..Len(genLog) :
        genLog[i].by = "fixQuery"
        => /\ Len(execLog) >= 1
           /\ execLog[1].resolved
           /\ genLog[i].prompt.query = execLog[1].query
           /\ \A k \in 1..Len(execLog[1].result.errors.v) :
                  Includes(genLog[i].prompt.errorMessage, execLog[1].result.errors.v[k])

\* C7: when attempt 1's execution fails and the repair attempt executes
\* successfully, the finished run has invoked analyzeQuery exactly once, on the
\* data of attempt 2.
C7_AnalyzerRunsOnceAfterRepair ==
    ( /\ pc = "done"
      /\ Len(execLog) = 2
      /\ ~execLog[1].result.success
      /\ execLog[2].result.success )
    => /\ Count(trace, "analyzeQuery") = 1
       /\ steps["fixQuery"].out.status = TRUE

\* C9: when the last allowed attempt fails, the failure result fixQuery returns
\* holds the last attempted query and its variables (and the execution error).
C9_FailureKeepsLastAttempt ==
    ( /\ pc = "done"
      /\ Len(execLog) = 2
      /\ execLog[2].by = "fixQuery"
      /\ ~execLog[2].result.success )
    => /\ steps["fixQuery"].out.query = execLog[2].query
       /\ steps["fixQuery"].out.variables = execLog[2].variables

\* C10: a non-2xx HTTP response yields success = false, the HTTP status
\* description as the only error, and data = null, whatever the body holds.
C10_HttpFailure ==
    \A i \in 1..Len(execLog) :
        (execLog[i].resolved /\ execLog[i].response.kind = "http" /\ ~execLog[i].response.ok)
        => /\ execLog[i].result.success = FALSE
           /\ execLog[i].result.errors =
                  List(<<<<"GraphQL request failed: ">> \o execLog[i].response.statusText>>)
           /\ execLog[i].result.data = Null

\* a 400 whose body is a GraphQL result with errors, and a 404 whose body has data
C10_Witness ==
    /\ Len(execLog) = 2
    /\ execLog[1].resolved /\ execLog[2].resolved
    /\ execLog[1].response = HttpFailure(<<"Bad Request">>, TRUE, Null, List(<<FieldError>>))
    /\ execLog[2].response = HttpFailure(<<"Not Found">>, TRUE, Payload, Undefined)

\* the engine's answer to analyzeQuery, once it has settled
AnalysisText ==
    LET calls == {i \in 1..Len(genLog) : genLog[i].by = "analyzeQuery"}
    IN IF calls = {} THEN <<>>
       ELSE LET i == CHOOSE c \in calls : TRUE
            IN IF genLog[i].resolved /\ genLog[i].res.kind = "text"
               THEN genLog[i].res.text ELSE <<>>

\* C19: for every non-empty engine text analyzeQuery returns (it does not throw)
\* a relevance that is an integer in 0..10: the number of the first
\* "Relevance score: X/10" in the text, in any letter case, clamped to 0..10,
\* and 5 when the text has no such match.
C19_Relevance ==
    (pc = "done" /\ AnalysisText # <<>>)
    => /\ steps["analyzeQuery"].state = "success"
       /\ steps["analyzeQuery"].out.analysis = AnalysisText
       /\ steps["analyzeQuery"].out.relevance \in 0..10
       /\ (\A i \in 1..Len(AnalysisText) : AnalysisText[i] \notin RelevanceWords)
              => steps["analyzeQuery"].out.relevance = 5
       /\ AnalysisText = <<"Good.", "\n", "Relevance", " ", "score:", " ", "7", "/10">>
              => steps["analyzeQuery"].out.relevance = 7
       /\ AnalysisText = <<"relevance", " ", "SCORE:", "15", "/10", "\n",
                           "Relevance", " ", "score:", " ", "0", "/10">>
              => steps["analyzeQuery"].out.relevance = 10
       /\ AnalysisText = <<"Relevance", " ", "score:", " ", "-", "7", "/10">>
              => steps["analyzeQuery"].out.relevance = 5
       /\ AnalysisText = <<"RELEVANCE", " ", "Score:", "\n", "007", "/100">>
              => steps["analyzeQuery"].out.relevance = 7

\* a text whose first score, 15/10, is above the range and is followed by a second one
C19_Witness ==
    /\ pc = "done"
    /\ AnalysisText = <<"relevance", " ", "SCORE:", "15", "/10", "\n",
                        "Relevance", " ", "score:", " ", "0", "/10">>
    /\ steps["analyzeQuery"].out.relevance = 10

\* the engine threw, or answered without text, while analyzeQuery waited for it
AnalysisFailed ==
    \E i \in 1..Len(genLog) :
       /\ genLog[i].by = "analyzeQuery" /\ genLog[i].resolved
       /\ genLog[i].res.kind = "throws" \/ genLog[i].res.text = <<>>

\* C20: when the engine returns no text or throws during analyzeQuery, the step
\* returns (it does not throw) the fixed text 'Failed to analyze the query
\* results.' with relevance 0.
C20_AnalysisFallback ==
    (pc = "done" /\ AnalysisFailed)
    => /\ steps["analyzeQuery"].state = "success"
       /\ steps["analyzeQuery"].out.analysis = <<"Failed to analyze the query results.">>
       /\ steps["analyzeQuery"].out.relevance = 0

\* C21: when generateQuery's generation yields text from which no query can be
\* parsed, the attempt is marked failed, the Query Executor is not invoked for
\* it, and the engine's raw text is kept as the attempt's explanation.
C21_UnparsedTextPreserved ==
    ( /\ steps["generateQuery"].state = "success"
      /\ Len(genLog) >= 1
      /\ genLog[1].by = "generateQuery" /\ genLog[1].resolved
      /\ NoParseableQuery(genLog[1].res) )
    => /\ steps["generateQuery"].out.status = FALSE
       /\ \A i \in 1..Len(execLog) : execLog[i].by # "generateQuery"
       /\ steps["generateQuery"].out.explanation = genLog[1].res.text

QuerySteps == {"generateQuery", "fixQuery"}

\* C22: an engine response without text on an attempt is exactly one failed
\* attempt: the step has called the engine once, does not call the Query
\* Executor and returns a failure result, and generateQuery and fixQuery
\* together make at most 2 generation calls in a run.
C22_EmptyResponseIsOneFailedAttempt ==
    /\ Cardinality({i \in 1..Len(genLog) : genLog[i].by \in QuerySteps}) <= 2
    /\ \A i \in 1..Len(genLog) :
          (genLog[i].by \in QuerySteps /\ genLog[i].resolved /\ genLog[i].res = EngineNoText)
          => /\ Cardinality({k \in 1..Len(genLog) : genLog[k].by = genLog[i].by}) = 1
             /\ \A k \in 1..Len(execLog) : execLog[k].by # genLog[i].by
             /\ steps[genLog[i].by].state = "success"
             /\ steps[genLog[i].by].out.status = FALSE

\* the repair attempt's engine call came back without text, after a first
\* attempt that executed and failed
C22_Witness ==
    /\ pc = "done"
    /\ Len(genLog) = 2 /\ Len(execLog) = 1
    /\ genLog[2].by = "fixQuery" /\ genLog[2].resolved /\ genLog[2].res = EngineNoText
    /\ steps["fixQuery"].out.status = FALSE

InFlight == {i \in 1..Len(execLog) : ~execLog[i].resolved}

\* C23: within one run the attempts are strictly sequential: at most one Query
\* Executor call is in flight at any time, and fixQuery starts only after
\* generateQuery has finished and its execution has returned its result.
C23_AttemptsSequential ==
    /\ Cardinality(InFlight) <= 1
    /\ \A i \in InFlight : i = Len(execLog) /\ pending = ExecutorCall(execLog[i].by, pending.locals)
    /\ Count(trace, "fixQuery") >= 1
          => /\ steps["generateQuery"].state = "success"
             /\ \A i \in 1..Len(execLog) :
                   execLog[i].by = "generateQuery"
                   => execLog[i].resolved /\ execLog[i].result.success \in BOOLEAN

\* the repair's execution is in flight and the first attempt's has returned
C23_Witness ==
    /\ pc = "fixQuery:exec"
    /\ Len(execLog) = 2
    /\ execLog[1].by = "generateQuery" /\ execLog[1].resolved
    /\ execLog[2].by = "fixQuery" /\ InFlight = {2}

\* the error texts a failed call must report, by what went wrong: the query's
\* syntax, the variables, the network, the HTTP status, the body, the body's errors
ExpectedErrors(e) ==
    IF ~SyntaxOK(e.query) THEN <<SyntaxErrorMessage>>
    ELSE IF MutationRejected(graphqlQueryOptions, e.query) THEN <<>>
    ELSE IF e.variables # <<>> /\ ~JsonOK(e.variables) THEN <<JsonErrorMessage>>
    ELSE IF e.response.kind = "neterr" THEN <<e.response.statusText>>
    ELSE IF ~e.response.ok THEN <<<<"GraphQL request failed: ">> \o e.response.statusText>>
    ELSE IF ~e.response.bodyJson THEN <<BodyErrorMessage>>
    ELSE IF e.response.errors.tag = "list" THEN e.response.errors.v
    ELSE <<>>

\* C25: failures inside one attempt are data: for a syntax error, bad variables,
\* a network error, a non-2xx status, a body that is not JSON and GraphQL errors
\* the Query Executor returns a result with success = false and the error text,
\* and the step that called it returns a failure result (it does not throw).
C25_FailuresAreData ==
    \A i \in 1..Len(execLog) :
        execLog[i].resolved
        => /\ execLog[i].result.success \in BOOLEAN
           /\ steps[execLog[i].by].state = "success"
           /\ ExpectedErrors(execLog[i]) # <<>>
                 => /\ execLog[i].result.success = FALSE
                    /\ execLog[i].result.errors = List(ExpectedErrors(execLog[i]))
                    /\ steps[execLog[i].by].out.status = FALSE

\* a run in which the first attempt met a network error and the repair a query
\* with a syntax error
C25_Witness ==
    /\ pc = "done" /\ Len(execLog) = 2
    /\ execLog[1].response.kind = "neterr"
    /\ execLog[1].result.errors = List(<<<<"fetch failed">>>>)
    /\ ~SyntaxOK(execLog[2].query)
    /\ execLog[2].result.errors = List(<<<<"Syntax Error">>>>)
    /\ steps["fixQuery"].state = "success" /\ steps["fixQuery"].out.status = FALSE

\* the step that follows stepId is next to run, or has started
Follows(stepId) == pc = stepId \/ Count(trace, stepId) >= 1

\* C26: the step taken after an execution depends only on the result's success
\* flag: after generateQuery's execution a failure of any kind (network, HTTP
\* status, body, GraphQL errors) leads to fixQuery and never to analyzeQuery, a
\* success to analyzeQuery and never to fixQuery, and after fixQuery's execution
\* the run ends whatever the failure was.
C26_FailuresTreatedAlike ==
    \A i \in 1..Len(execLog) :
        execLog[i].resolved
        => /\ execLog[i].by = "generateQuery"
                 => IF execLog[i].result.success
                    THEN Follows("analyzeQuery") /\ ~Follows("fixQuery")
                    ELSE Follows("fixQuery") /\ ~Follows("analyzeQuery")
           /\ execLog[i].by = "fixQuery" => pc = "done"

\* the first attempt failed at GraphQL level, with partial data in a 200
\* response, and the repair at transport level
C26_Witness ==
    /\ pc = "done" /\ Len(execLog) = 2
    /\ execLog[1].response.kind = "http" /\ execLog[1].response.ok
    /\ execLog[1].response.errors = List(<<FieldError, OtherError>>)
    /\ Truthy(execLog[1].response.data)
    /\ execLog[2].response.kind = "neterr"
    /\ trace = <<"generateQuery", "fixQuery">>

\* fixQuery has started
FixQueryRan == wf = "graphql-execution" /\ Count(trace, "fixQuery") >= 1

\* one of fixQuery's inputs is absent or empty: the prompt, the schema, the
\* query or the variables of generateQuery, the source-code context (absent
\* only) or the error of the previous execution
FixInputMissing ==
    \/ ctx.prompt = Undefined \/ ctx.prompt = Str(<<>>)
    \/ ctx.schema = Undefined \/ ctx.schema = Str(<<>>)
    \/ steps["generateQuery"].state # "success"
    \/ steps["generateQuery"].out.query = <<>>
    \/ steps["generateQuery"].out.variables = <<>>
    \/ ctx.relevantSourceCode = Undefined
    \/ ctx.inputError = Undefined \/ ctx.inputError = Str(<<>>)

\* C37: when fixQuery runs with a required input missing it returns status =
\* false with the explanation 'Missing required data for fixQuery step', an
\* empty query and empty variables, and neither the engine nor the executor is
\* called by it.
C37_FixQueryInputGuard ==
    (FixQueryRan /\ FixInputMissing)
    => /\ steps["fixQuery"].state = "success"
       /\ steps["fixQuery"].out.status = FALSE
       /\ steps["fixQuery"].out.explanation
             = <<"Missing required data for fixQuery step">>
       /\ steps["fixQuery"].out.query = <<>>
       /\ steps["fixQuery"].out.variables = <<>>
       /\ \A i \in 1..Len(genLog) : genLog[i].by # "fixQuery"
       /\ \A i \in 1..Len(execLog) : execLog[i].by # "fixQuery"
       /\ pending = NoCall

\* generateQuery's execution failed and only the previous error is missing
C37_Witness ==
    /\ FixQueryRan
    /\ Truthy(ctx.prompt) /\ Truthy(ctx.schema)
    /\ ctx.relevantSourceCode = Str(SourceComments)
    /\ steps["generateQuery"].out.query = QueryA
    /\ steps["generateQuery"].out.variables = VarsV
    /\ ctx.inputError = Undefined
    /\ Len(genLog) = 1 /\ Len(execLog) = 1
    /\ steps["fixQuery"].out.explanation = <<"Missing required data for fixQuery step">>

----------------------------------------------------------------------------
(* Properties of graphqlAnalysis1 *)

\* C6: on the repair attempt the query and variables sent to the Query Executor
\* are exactly those the repair generation produced: what executeFixedQuery
\* executes is what fixQuery returned.
C6_RepairExecutesRepairedQuery ==
    \A i \in 1..Len(execLog) :
        (execLog[i].by = "executeFixedQuery" /\ steps["fixQuery"].out.present)
        => /\ execLog[i].query = steps["fixQuery"].out.query
           /\ execLog[i].variables = steps["fixQuery"].out.variables

\* C8: once executeQuery has returned success = true, neither fixQuery nor
\* executeFixedQuery runs and no further Query Executor call is made.
C8_NoRepairAfterSuccess ==
    (steps["executeQuery"].state = "success" /\ steps["executeQuery"].out.success)
    => /\ Count(trace, "fixQuery") = 0
       /\ Count(trace, "executeFixedQuery") = 0
       /\ Len(execLog) = 1

----------------------------------------------------------------------------
(* Properties of gitcoinQueryWorkflow *)

\* The properties C2, C24 and C33 count the runs of a step, so they depend on
\* what the engine does with a step declared twice after the same step. They
\* hold of SpecGitcoinOnce; of SpecGitcoin, where each declaration may start a
\* run of its own, C24 and C33 fail within MaxRuns step runs and C2 within seven.

\* C2: in gitcoinQueryWorkflow the executeQuery step calls the Query Executor at
\* most 2 times, no step result carries an attemptCount above 2, and the branch
\* back to fetchSchema (needsRetry = true with attemptCount = 2) is never taken:
\* fetchSchema runs once.
C2_GitcoinAttemptsBounded ==
    /\ Len(execLog) <= 2
    /\ Count(trace, "executeQuery") <= 2
    /\ \A s \in {"planQuery", "executeQuery", "analyzeResult"} :
           steps[s].state = "success" => steps[s].out.attemptCount <= 2
    /\ steps["analyzeResult"].state = "success"
           => ~(steps["analyzeResult"].out.needsRetry
                /\ steps["analyzeResult"].out.attemptCount = 2)
    /\ Count(trace, "fetchSchema") <= 1

\* a run that failed twice, gave the fallback answer and finished
C2_Witness ==
    /\ wf = "gitcoin-query-workflow" /\ pc = "done"
    /\ steps["finalAnswer"].state = "success"
    /\ Len(execLog) = 2
    /\ ~execLog[1].result.success /\ ~execLog[2].result.success
    /\ steps["analyzeResult"].out.attemptCount = 2
    /\ ~steps["analyzeResult"].out.needsRetry

\* C24: the attempt counter is 1 for the first planQuery and one more for each
\* retry planQuery (so it equals the number of planQuery runs), it is assigned
\* only when the engine call of that planQuery has completed, and executeQuery
\* and analyzeResult carry it unchanged.
C24_AttemptCounter ==
    /\ (steps["planQuery"].state = "success" /\ pending.by # "planQuery")
          => steps["planQuery"].out.attemptCount = Count(trace, "planQuery")
    /\ (pending.by = "planQuery" /\ steps["planQuery"].state = "success")
          => steps["planQuery"].out.attemptCount = Count(trace, "planQuery") - 1
    /\ (pending.by = "planQuery" /\ Count(trace, "planQuery") = 1)
          => steps["planQuery"].state = "none"
    /\ \A s \in {"executeQuery", "analyzeResult"} :
          ( /\ pending = NoCall
            /\ steps[s].state = "success"
            /\ Count(trace, s) = Count(trace, "planQuery") )
          => /\ steps["planQuery"].state = "success"
             /\ steps[s].out.attemptCount = steps["planQuery"].out.attemptCount
             /\ steps[s].out.attemptCount = Count(trace, "planQuery")

\* the retry's analyzeResult has finished with the counter at 2
C24_Witness ==
    /\ wf = "gitcoin-query-workflow" /\ pending = NoCall
    /\ Count(trace, "planQuery") = 2 /\ Count(trace, "analyzeResult") = 2
    /\ steps["planQuery"].out.attemptCount = 2
    /\ steps["executeQuery"].out.attemptCount = 2
    /\ steps["analyzeResult"].state = "success"
    /\ steps["analyzeResult"].out.attemptCount = 2

\* analyzeResult has returned for the attempt whose execution executeQuery holds
AnalyzedAttempt ==
    /\ wf = "gitcoin-query-workflow" /\ pending = NoCall
    /\ steps["analyzeResult"].state = "success"
    /\ steps["executeQuery"].state = "success"
    /\ \E i \in 1..Len(trace) :
          /\ trace[i] = "analyzeResult"
          /\ \A j \in (i + 1)..Len(trace) : trace[j] = "finalAnswer"

\* the prompt of the last engine call, which analyzeResult made
LastPromptKind == genLog[Len(genLog)].prompt.kind

\* C32: after a failed execution analyzeResult returns needsRetry = true exactly
\* when attemptCount < MAX_RETRIES, then without an answer; otherwise it returns
\* needsRetry = false with the answer of the fallback prompt; after a successful
\* execution it returns needsRetry = false with the answer to the result.
C32_RetryDecision ==
    AnalyzedAttempt =>
        LET prevResult == steps["executeQuery"].out
            out == steps["analyzeResult"].out
        IN /\ out.attemptCount = prevResult.attemptCount
           /\ genLog[Len(genLog)].by = "analyzeResult"
           /\ genLog[Len(genLog)].resolved
           /\ IF prevResult.success
              THEN /\ out.needsRetry = FALSE
                   /\ LastPromptKind = "answer"
                   /\ out.answer = Str(genLog[Len(genLog)].res.text)
              ELSE /\ out.needsRetry = (out.attemptCount < MAX_RETRIES)
                   /\ out.needsRetry
                         => /\ LastPromptKind = "errorAnalysis"
                            /\ out.answer = Str(<<>>)
                   /\ ~out.needsRetry
                         => /\ LastPromptKind = "fallback"
                            /\ out.answer = Str(genLog[Len(genLog)].res.text)

\* the second attempt failed as well and the fallback answer was returned
C32_Witness ==
    /\ AnalyzedAttempt
    /\ Count(trace, "analyzeResult") = 2
    /\ ~steps["executeQuery"].out.success
    /\ steps["analyzeResult"].out.attemptCount = MAX_RETRIES
    /\ ~steps["analyzeResult"].out.needsRetry
    /\ LastPromptKind = "fallback"
    /\ steps["analyzeResult"].out.answer = Str(AnswerText)

\* C33: the userQuestion, schema, docsContext and sourceCodeContext that planQuery,
\* executeQuery and analyzeResult carry are, at every attempt, the values that
\* searchContext produced, and searchContext produces them once; what differs
\* between attempts is queryText, queryVariables, attemptCount and analysisResult.
C33_ContextCarried ==
    wf = "gitcoin-query-workflow" =>
        /\ Count(trace, "searchContext") <= 1
        /\ \A s \in {"planQuery", "executeQuery", "analyzeResult"} :
              steps[s].state = "success"
              => /\ steps["searchContext"].state = "success"
                 /\ steps[s].out.userQuestion = steps["searchContext"].out.userQuestion
                 /\ steps[s].out.schema = steps["searchContext"].out.schema
                 /\ steps[s].out.docsContext = steps["searchContext"].out.docsContext
                 /\ steps[s].out.sourceCodeContext
                       = steps["searchContext"].out.sourceCodeContext

\* the retry attempt has been planned, executed and analyzed with the context
\* found by searchContext
C33_Witness ==
    /\ AnalyzedAttempt
    /\ Count(trace, "planQuery") = 2
    /\ steps["planQuery"].out.attemptCount = 2
    /\ steps["searchContext"].out.docsContext = DocsText
    /\ steps["analyzeResult"].out.docsContext = DocsText
    /\ steps["executeQuery"].out.sourceCodeContext = DocsText
    /\ steps["planQuery"].out.schema = SchemaText

NoStepThrew == \A s \in GitcoinSteps : steps[s].state # "failed"

\* finalAnswer runs at most once and only on a result with needsRetry = false; a
\* finished run without a throw has run it once, and its answer is what the
\* engine returned to the last prompt of analyzeResult: the answer prompt after a
\* successful execution, the fallback prompt after the last failed one
FinalAnswerGiven ==
    /\ Count(trace, "finalAnswer") <= 1
    /\ (pc = "finalAnswer" \/ Count(trace, "finalAnswer") = 1)
          => /\ steps["analyzeResult"].state = "success"
             /\ steps["analyzeResult"].out.needsRetry = FALSE
    /\ (pc = "done" /\ NoStepThrew)
          => /\ Count(trace, "finalAnswer") = 1
             /\ steps["finalAnswer"].state = "success"
             /\ genLog # <<>> /\ execLog # <<>>
             /\ LET g == genLog[Len(genLog)]
                IN /\ g.by = "analyzeResult" /\ g.resolved
                   /\ g.prompt.kind = IF LastExec.result.success THEN "answer" ELSE "fallback"
                   /\ g.prompt.kind = "fallback"
                         => steps["analyzeResult"].out.attemptCount = MAX_RETRIES
                   /\ steps["finalAnswer"].out.finalAnswer = Str(g.res.text)

\* C28: every run of gitcoinQueryWorkflow ends, and a run in which no step
\* throws reaches finalAnswer exactly once, only with needsRetry = false, with
\* the analysis of a successful execution or the exhausted-retries fallback as
\* its answer, never the empty answer of a retry result.
C28_FinalAnswerReached == <>(pc = "done") /\ []FinalAnswerGiven

----------------------------------------------------------------------------
(* Properties of one call of the Query Executor *)

\* the calls of execute that have returned
ReturnedCalls == {i \in 1..Len(execLog) : execLog[i].resolved}

\* C11: a 2xx response whose body has a non-empty errors array yields
\* success = false, errors equal to that array and data equal to the partial
\* data the body carried.
C11_GraphQLErrors ==
    \A i \in ReturnedCalls :
        ( /\ execLog[i].response.kind = "http" /\ execLog[i].response.ok
          /\ execLog[i].response.bodyJson
          /\ execLog[i].response.errors.tag = "list"
          /\ execLog[i].response.errors.v # <<>> )
        => /\ execLog[i].result.success = FALSE
           /\ execLog[i].result.errors = execLog[i].response.errors
           /\ execLog[i].result.data = execLog[i].response.data

\* the data of a result is the body's data, or its serialisation cut down to a
\* string that ends with the truncation marker
SizeBounded(returned, data, ceiling) ==
    \/ returned = data
    \/ /\ Truthy(data)
       /\ WordCount(JSON_stringify(data).v) > ceiling
       /\ returned.tag = "string"
       /\ Len(returned.v) >= Len(truncationSuffix)
       /\ SubSeq(returned.v, Len(returned.v) - Len(truncationSuffix) + 1, Len(returned.v))
              = truncationSuffix

\* the ceiling in force for a call: the call's maxTokens, or else the tool's
Ceiling(call) ==
    IF call.context.hasMaxTokens THEN call.context.maxTokens ELSE ctx.maxTokens

\* C12: a 2xx response whose body has no errors (none, or an empty array) yields
\* success = true, errors = null and data equal to the body's data, cut down to
\* the ceiling when it is larger.
C12_SuccessResult ==
    \A i \in ReturnedCalls :
        ( /\ execLog[i].response.kind = "http" /\ execLog[i].response.ok
          /\ execLog[i].response.bodyJson
          /\ \/ execLog[i].response.errors = Undefined
             \/ execLog[i].response.errors = List(<<>>) )
        => /\ execLog[i].result.success = TRUE
           /\ execLog[i].result.errors = Null
           /\ SizeBounded(execLog[i].result.data, execLog[i].response.data,
                          Ceiling(execLog[i]))

\* a body with an empty errors array and a payload within the ceiling
C12_Witness ==
    /\ Len(execLog) = 1 /\ execLog[1].resolved
    /\ execLog[1].response = HttpBody(Payload, List(<<>>))
    /\ execLog[1].result.data = Payload
    /\ execLog[1].result.success

\* C13: whenever the variables string of a call is not a JSON text (malformed,
\* or empty), execute returns success = false and sends no request whose
\* variables are undefined.
C13_InvalidVariablesReported ==
    \A i \in ReturnedCalls :
        ( /\ execLog[i].context.variables.tag = "string"
          /\ ~JsonOK(execLog[i].context.variables.v) )
        => /\ execLog[i].result.success = FALSE
           /\ \A k \in 1..Len(execLog[i].requests) :
                  execLog[i].requests[k].variables # Undefined

\* C16: the outcome of the archive write never changes the result: for the same
\* call and the same endpoint response, execute returns the same success, data
\* and errors whether embedSingleString stores, returns false or throws, and
\* whether or not the archive is configured.
C16_ArchiveFailureIgnored ==
    \A i \in ReturnedCalls :
        \A embed \in EmbedOutcomes, indexName \in BOOLEAN, connection \in BOOLEAN :
            LET options == [ctx EXCEPT !.successfulQueriesIndexName = indexName,
                                       !.pgConnectionString = connection]
                other == execute(options, execLog[i].context, execLog[i].response,
                                 embed).result
            IN /\ other.success = execLog[i].result.success
               /\ other.data = execLog[i].result.data
               /\ other.errors = execLog[i].result.errors

\* a successful call whose archive write threw
C16_Witness ==
    /\ Len(execLog) = 1 /\ execLog[1].resolved
    /\ Len(execLog[1].archive) = 1
    /\ execLog[1].archive[1].outcome = "throws"
    /\ execLog[1].result.success
    /\ execLog[1].result.data = Payload

\* C17: a call writes to the archive at most once, and only when it ends with
\* success = true and both the index name and the connection string are
\* configured: never for a rejected mutation, a parse error, a non-2xx response
\* or a response with GraphQL errors.
C17_ArchiveOnlyOnSuccess ==
    \A i \in ReturnedCalls :
        /\ Len(execLog[i].archive) <= 1
        /\ execLog[i].archive # <<>>
           => /\ execLog[i].result.success = TRUE
              /\ ctx.successfulQueriesIndexName /\ ctx.pgConnectionString
              /\ execLog[i].response.ok
              /\ ~HasGraphQLErrors(execLog[i].response)
              /\ ~isMutation(execLog[i].context.query) \/ ctx.allowMutations

\* a successful call that wrote the query and its result to the archive
C17_Witness ==
    /\ Len(execLog) = 1 /\ execLog[1].resolved
    /\ execLog[1].archive =
           <<[text |-> ArchiveText(QueryA, WidePayload), outcome |-> "stored"]>>
    /\ execLog[1].result.success

\* C34: every result of execute with success = true has errors = null; every
\* result with success = false has a non-empty list of errors and data = null,
\* unless the response carried GraphQL errors, in which case data is the partial
\* data of that response (cut down to the ceiling when it is larger).
C34_ResultShape ==
    \A i \in ReturnedCalls :
        LET r == execLog[i].result
        IN /\ r.success \in BOOLEAN
           /\ r.success = TRUE => r.errors = Null
           /\ r.success = FALSE
                 => /\ r.errors.tag = "list"
                    /\ Len(r.errors.v) > 0
                    /\ \/ r.data = Null
                       \/ /\ Len(execLog[i].requests) = 1
                          /\ HasGraphQLErrors(execLog[i].response)
                          /\ r.errors = execLog[i].response.errors
                          /\ SizeBounded(r.data, execLog[i].response.data,
                                         Ceiling(execLog[i]))

\* a response with two GraphQL errors and partial data
C34_Witness ==
    /\ Len(execLog) = 1 /\ execLog[1].resolved
    /\ execLog[1].response = HttpBody(Payload, List(<<FieldError, OtherError>>))
    /\ execLog[1].result.success = FALSE
    /\ execLog[1].result.data = Payload
    /\ execLog[1].result.errors = List(<<FieldError, OtherError>>)

\* queries that graphql's parse() rejects: the empty document and an unclosed
\* selection set
RejectedByParser == {<<>>, <<"query{">>}

\* C35: a call whose query the parser rejects (the empty string included) hands
\* no request to fetch and writes nothing to the archive; execute returns
\* success = false, data = null and the parser's message as the only error.
C35_InvalidQueryNotSent ==
    \A i \in ReturnedCalls :
        execLog[i].context.query \in RejectedByParser
        => /\ execLog[i].requests = <<>>
           /\ execLog[i].archive = <<>>
           /\ execLog[i].result.success = FALSE
           /\ execLog[i].result.data = Null
           /\ execLog[i].result.errors = List(<<SyntaxErrorMessage>>)

\* the empty query was rejected without a request
C35_Witness ==
    /\ Len(execLog) = 1 /\ execLog[1].resolved
    /\ execLog[1].context.query = <<>>
    /\ execLog[1].requests = <<>>
    /\ execLog[1].result.success = FALSE
    /\ execLog[1].result.errors = List(<<SyntaxErrorMessage>>)

----------------------------------------------------------------------------
(* Properties of a call whose endpoint may stay silent *)

\* C27: a Query Executor call is bounded by a per-call timeout: once the request
\* has been sent the call completes, even when the endpoint never responds.
C27_CallsComplete == (pc = "fetch") ~> (pc = "done")

----------------------------------------------------------------------------
(* Properties of graphqlQueryAgent *)

\* C29: in any run of graphqlQueryAgent the fixQueryAnalysis tool is invoked at
\* most 5 times: after 5 unsuccessful attempts no further fix attempt is made.
C29_FixAttemptsBounded == Count(trace, "fixQueryAnalysis") <= 5

----------------------------------------------------------------------------
(* Properties of the sourceCode step *)

\* C30: sourceCode removes every retriever result equal to the empty-results
\* sentinel before concatenating: the relevantSourceCode it returns never
\* contains the sentinel text, whatever the three retriever calls returned, and
\* a result without the sentinel is kept.
C30_SentinelFiltered ==
    steps["sourceCode"].state = "success"
    => LET relevantSourceCode == steps["sourceCode"].out.relevantSourceCode
       IN /\ Len(execLog) = 3
          /\ ~Includes(relevantSourceCode, NoRelevantContext)
          /\ (\A i \in 1..3 : execLog[i] = NoRelevantContext) => relevantSourceCode = <<>>
          /\ \A i \in 1..3 :
                ~Includes(execLog[i], NoRelevantContextProbe)
                => Includes(relevantSourceCode, execLog[i])

\* the second retriever call found nothing, the other two found rows
C30_Witness ==
    /\ wf = "sourceCode" /\ pc = "done"
    /\ steps["sourceCode"].state = "success"
    /\ execLog[2] = NoRelevantContext
    /\ execLog[1] # NoRelevantContext /\ execLog[3] # NoRelevantContext
    /\ steps["sourceCode"].out.relevantSourceCode = execLog[1] \o <<"\n">> \o execLog[3]

----------------------------------------------------------------------------
(* Properties of the generateQuery step of steps/generate-query.ts *)

\* the trimmed content of the first <tag>...</tag> of text, "" without one
FirstTagContent(text, open, close) ==
    IF \E i, j \in 1..Len(text) : i < j /\ text[i] = open /\ text[j] = close
    THEN LET i == CHOOSE a \in 1..Len(text) :
                      /\ text[a] = open
                      /\ \A b \in 1..(a - 1) : text[b] # open
             j == CHOOSE a \in (i + 1)..Len(text) :
                      /\ text[a] = close
                      /\ \A b \in (i + 1)..(a - 1) : text[b] # close
         IN Trim(SubSeq(text, i + 1, j - 1))
    ELSE <<>>

\* C31: for the text the engine returned, the step works with the trimmed content
\* of the first <query>, <variables> and <explanation> tags, and with the empty
\* string for a tag that is absent; with an empty query the generation has
\* failed: no executor call, success = false.
C31_TagParser ==
    \A i \in 1..Len(genLog) :
        (genLog[i].resolved /\ genLog[i].res.kind = "text" /\ genLog[i].res.text # <<>>)
        => LET text == genLog[i].res.text
               query == FirstTagContent(text, "<query>", "</query>")
               variables == FirstTagContent(text, "<variables>", "</variables>")
               explanation == FirstTagContent(text, "<explanation>", "</explanation>")
           IN IF query = <<>>
              THEN /\ execLog = <<>>
                   /\ steps["generateQuery"].state = "success"
                   /\ steps["generateQuery"].out.success = FALSE
              ELSE /\ Len(execLog) = 1
                   /\ execLog[1].query = query
                   /\ execLog[1].variables = variables
                   /\ execLog[1].resolved
                         => /\ steps["generateQuery"].out.query = query
                            /\ steps["generateQuery"].out.variables = variables
                            /\ steps["generateQuery"].out.explanation = explanation

----------------------------------------------------------------------------
(* Properties of the fixQuery step of steps/fix-query *)

\* the text the repair call returned, once it has
RepairText == genLog[1].res.text

\* C36: the executor is called only for a repair response that holds both a
\* <query> and a <variables> tag, and only with a non-empty query and non-empty
\* variables; a response whose two tags hold text is executed with that text,
\* trimmed; for every other response the step returns success = false, an empty
\* query, empty variables and the raw response as explanation, and the executor
\* is not called.
C36_FixExecutesOnlyParsed ==
    (wf = "steps/fix-query" /\ Len(genLog) = 1 /\ genLog[1].resolved
        /\ genLog[1].res.kind = "text" /\ RepairText # <<>>)
    => LET queryMatch == queryPattern(RepairText)
           variablesMatch == variablesPattern(RepairText)
       IN /\ Len(execLog) <= 1
          /\ Len(execLog) = 1
                => /\ queryMatch.found /\ variablesMatch.found
                   /\ execLog[1].query # <<>>
                   /\ execLog[1].variables # <<>>
          /\ ( /\ queryMatch.found /\ Trim(queryMatch.cap) # <<>>
               /\ variablesMatch.found /\ Trim(variablesMatch.cap) # <<>> )
                => /\ Len(execLog) = 1
                   /\ execLog[1].query = Trim(queryMatch.cap)
                   /\ execLog[1].variables = Trim(variablesMatch.cap)
          /\ execLog = <<>>
                => /\ steps["fixQuery"].state = "success"
                   /\ steps["fixQuery"].out.success = FALSE
                   /\ steps["fixQuery"].out.query = <<>>
                   /\ steps["fixQuery"].out.variables = <<>>
                   /\ steps["fixQuery"].out.explanation = RepairText

\* a response with a <query> tag only was returned as the explanation of a
\* failed repair, without an execution
C36_Witness ==
    /\ wf = "steps/fix-query" /\ pc = "done"
    /\ Len(genLog) = 1 /\ RepairText = QueryTag(QueryA)
    /\ execLog = <<>>
    /\ steps["fixQuery"].out.success = FALSE
    /\ steps["fixQuery"].out.explanation = QueryTag(QueryA)

----------------------------------------------------------------------------
(* Properties of GitbookDownloader.fetchPage *)

\* C38: fetchPage ends for every sequence of responses and errors, a server that
\* keeps answering 429 included; it issues at most maxRetries + 1 requests, and
\* what it returns is the page content or null.
C38_FetchPageTerminates ==
    /\ <>(pc = "done")
    /\ [](Len(trace) <= ctx.maxRetries + 1)
    /\ [](pc = "done" => /\ pending.kind = "returned"
                         /\ pending.locals.text \in {Null, Str(PageHtml)})

\* every request was answered with 429 and fetchPage gave up after
\* maxRetries + 1 of them
C38_Witness ==
    /\ wf = "fetchPage" /\ pc = "done"
    /\ Len(trace) = ctx.maxRetries + 1
    /\ \A i \in 1..Len(trace) : trace[i] = HttpStatus(429)
    /\ steps.retryCount = ctx.maxRetries
    /\ pending.locals.text = Null

----------------------------------------------------------------------------
(* Properties of processGraphQLResponse *)

\* the positions of s that hold a space, up to position k
SpacesUpTo(s, k) == {i \in 1..k : s[i] = " "}

\* C14: for every payload and ceiling N: when the serialised payload has more
\* than N words (pieces between single spaces) the returned data is its first N
\* words, in order, followed by the truncation marker; when it has at most N
\* words, or is empty, the data is returned unchanged.  success and errors pass
\* through.
C14_Truncation ==
    \A i \in 1..Len(execLog) :
        LET in == execLog[i].input
            out == execLog[i].output
            N == ctx.options.maxTokens
            js == JSON_stringify(in.data).v
        IN /\ out.success = in.success
           /\ out.errors = in.errors
           /\ IF Truthy(in.data) /\ Cardinality(SpacesUpTo(js, Len(js))) + 1 > N
              THEN \E k \in 0..Len(js) :
                      /\ out.data = Str(SubSeq(js, 1, k) \o truncationSuffix)
                      /\ N = 0 => k = 0
                      /\ N > 0 => /\ js[k + 1] = " "
                                  /\ Cardinality(SpacesUpTo(js, k)) = N - 1
              ELSE out.data = in.data

\* the four-word payload cut down to two words, and a payload left as it is
C14_Witness ==
    /\ Len(execLog) >= 1
    /\ ctx.options.maxTokens = 2
    /\ execLog[1].input.data = WidePayload
    /\ execLog[1].output.data =
           Str(<<"{", "\"", "titles", "\"", ":", "\"", "Alpha", " ", "Beta">>
               \o truncationSuffix)

\* C15: truncation is idempotent: applied to its own output with the same
\* ceiling it returns the data unchanged.
C15_TruncationIdempotent ==
    \A i \in 2..Len(execLog) : execLog[i].output.data = execLog[i].input.data

----------------------------------------------------------------------------
(* Properties of the archive write *)

\* C18: any two archive writes, concurrent ones included, carry different
\* identifiers.
C18_FreshIdentifiers ==
    \A i, j \in 1..Len(execLog) : i # j => execLog[i].id # execLog[j].id

====
